---- MODULE Spec2Model ----
\* A model of the axebpf tracing framework: the guest-probe manager and its
\* trap handlers (src/src/probe/kprobe), the event pipeline (src/src/event.rs)
\* and the object-file loader with the map registry (src/src/runtime.rs,
\* src/src/map_ops.rs).
EXTENDS Integers, Sequences, FiniteSets, TLC

\* ---------------------------------------------------------------------------
\* Bounds of the model
\* ---------------------------------------------------------------------------
MaxVm == 1
MaxGva == 1
MaxProg == 1
MaxTraps == 1
StalePrefill == 63
MaxEmit == 3
MaxConsume == 2
MaxMapSlots == 2
MaxObjMaps == 2
MaxLoaded == 2
MaxEventId == 1
MaxTrigTraps == 2
MaxClones == 2
MaxCpu == 2
MaxCpuEmit == 2
MaxCpuMaps == 1
FullPrefill == 8191
NamePrefill == 65533
MaxNewNames == 10
MaxHostProg == 2
MaxEntries == 2
SlotPrefill == 61

\* ---------------------------------------------------------------------------
\* Program constants
\* ---------------------------------------------------------------------------
STALE_BRK_MAX_ENTRIES == 64
STALE_BRK_RETRY_BUDGET == 4096
PAGE_SIZE == 4096
FALLBACK_QUEUE_CAPACITY == 8192
U16_MAX == 65535
PROBE_TRACEPOINT == 0
PROBE_KPROBE == 3
PROBE_KRETPROBE == 4
SLOT_SIZE == 32
NUM_SLOTS == 64

\* Option<T>: None is the empty sequence, Some(x) the one-element sequence.
None == <<>>
Some(x) == <<x>>
IsSome(o) == Len(o) = 1
Unwrap(o) == o[1]

\* Build targets: the cfg(target_arch) alternatives of manager.rs.
Archs == {"aarch64", "x86_64", "other"}

\* A 32-bit word is its four little-endian bytes.
\* GUEST_BRK_INSN is 0xd4200000 on aarch64 and 0x000000cc on x86_64.
GUEST_BRK_INSN(a) == IF a = "aarch64" THEN <<0, 0, 32, 212>> ELSE <<204, 0, 0, 0>>

\* The guest text word the probes are planted on: 0x12345678, the word of the
\* test fixture MOCK_GUEST_TEXT.
OrigWords == {<<120, 86, 52, 18>>}

VmIds == 0..MaxVm
Gvas == 1..MaxGva
Keys == VmIds \X Gvas
ProgIds == 1..MaxProg
\* The key the tests install the failing mock backend for: a VM-specific one.
MockKeys == {<<MaxVm, 1>>}
\* Keys of probes detached before the modelled run starts (see InitStale).
FillerVm == MaxVm + 1
FillerKeys == {FillerVm} \X ((MaxGva + 1)..(MaxGva + StalePrefill))
Modes == {"Stage2Fault", "BrkInject"}
\* What a probe is bound to: <<prog_id, is_ret>>.
Bindings == ProgIds \X {FALSE}

\* The installed translation hooks: the direct GVA->HVA hook and the page-table
\* walk resolve a guest virtual address independently of the VM id, as the
\* mock hooks of the tests do.
gva_to_hva_for_vm(gva, vm_id) == gva
gva_to_gpa_with_vm(gva, vm_id) == gva
KeyHvas == {gva_to_hva_for_vm(k[2], k[1]) : k \in Keys}
Gpas == {gva_to_gpa_with_vm(k[2], k[1]) : k \in Keys}

\* The environment of one call: the first hook that fails in it, if any:
\* ttbr1 (vm_ttbr1_el1), xlate (the address translation hooks), s2 (the stage-2
\* execute hook, missing or returning an error).
Envs == {"none", "ttbr1", "xlate", "s2"}
\* disable calls no hook but the stage-2 execute hook.
DisableEnvs == {"none", "s2"}

VARIABLES
    arch,        \* the build target
    probes,      \* GUEST_KPROBE_REGISTRY.probes: key -> GuestKprobeEntry
    stale,       \* STALE_BRK_REGISTRY: key -> StaleBrkEntry
    staleOrder,  \* history: the keys of stale in the order they were added
    mem,         \* guest text, by host virtual address
    s2exec,      \* stage-2 execute permission, by <<vm_id, gpa>>
    mockFail,    \* MOCK_FAIL_ENABLE_TARGET
    preWord,     \* history: key -> the word at its hva just before its enable
    absorbed,    \* history: key -> retries answered since its stale entry was added
    nTraps,      \* number of trap deliveries so far (bounded by the guards)
    ret          \* the last operation and what it returned

guestVars == <<arch, probes, stale, staleOrder, mem, s2exec, mockFail, preWord, absorbed,
               nTraps, ret>>

VARIABLES
    MAP_REGISTRY,     \* slot i + 1 holds the map with fd i, or None
    RINGBUF_FD,       \* the fd of the trace ring-buffer map, or None
    FALLBACK_EVENTS,  \* the fallback queue, oldest record first
    NAME_TABLE,       \* event names; the name with offset i is element i + 1
    EVENT_NAME_MAP,   \* event id -> name offset
    STATS_REGISTRY,   \* event id -> ProbeStats
    time_ns,          \* platform::time_ns(), one tick per record created
    delivered,        \* history: timestamp of a record -> times consume_events returned it
    evret,            \* the records the last consume_events returned
    cpu,              \* per CPU: its position inside emit_event and its locals
    mutex,            \* lock -> the CPU holding it, 0 when it is free
    emitted           \* history: the records handed to emit_event, in call order

VARIABLES
    PROGRAM_REGISTRY, \* slot i + 1 holds the program with id i, or None
    clones,           \* program handles cloned out of the registry and not yet
                      \* dropped: shared-maps id -> [map_fds, n], n >= 1 handles
    loadret,          \* the last loader operation and what it returned
    ATTACHMENTS,      \* event name -> AttachmentInfo
    attret            \* the last attachment operation and what it returned

VARIABLES
    KPROBE_REGISTRY,  \* the host-probe registry: [probes, name_map]
    text,             \* host text: address -> instruction word
    points,           \* probe points of the probe library: address -> [saved, n]
    hret              \* the last host-probe operation and what it returned

VARIABLES
    SLOT_BITMAP,      \* insn_slot: the set of bits set, bit i for slot i in use
    insn,             \* probe library: probe address -> address of its instruction slot
    ORIGINAL_PC,      \* handler::per_cpu: CPU -> the pc saved at its main breakpoint
    sret              \* the last slot-pool or trap operation and what it returned

VARIABLES
    thr,              \* CPU -> its position inside an operation in progress and
                      \* the locals it holds there
    LOOKUP_BUFFER     \* helpers: the lookup buffer shared by every program run

mapVars == <<MAP_REGISTRY>>
slotVars == <<SLOT_BITMAP, insn, ORIGINAL_PC, sret>>
raceVars == <<thr, LOOKUP_BUFFER>>
hostVars == <<KPROBE_REGISTRY, text, points, hret, slotVars, raceVars>>
loadVars == <<PROGRAM_REGISTRY, clones, loadret, ATTACHMENTS, attret, hostVars>>
cpuVars == <<cpu, mutex, emitted>>
eventVars == <<RINGBUF_FD, FALLBACK_EVENTS, NAME_TABLE, EVENT_NAME_MAP, STATS_REGISTRY,
               time_ns, delivered, evret, cpuVars>>

\* The guest-probe state as one value, so that operations compose. Three
\* fields are history of the operation under way: ev (the stale entry it
\* evicted and the oldest entry at that moment), rp (the pre-enable word of the
\* probe whose breakpoint it removed) and fired (the binding whose program a
\* trap handler ran).
NoEvict == [victim |-> None, oldest |-> None]
G == [probes |-> probes, stale |-> stale, order |-> staleOrder, mem |-> mem,
      s2 |-> s2exec, mock |-> mockFail, pre |-> preWord, abs |-> absorbed,
      ev |-> NoEvict, rp |-> None, fired |-> None]

Ok(g) == [g |-> g, ok |-> TRUE]
Err(g) == [g |-> g, ok |-> FALSE]

Remove(f, k) == [x \in DOMAIN f \ {k} |-> f[x]]
Without(s, k) == SelectSeq(s, LAMBDA x : x # k)

\* Ord for ProbeKey = (u32, u64): lexicographic.
KeyLess(a, b) == a[1] < b[1] \/ (a[1] = b[1] /\ a[2] < b[2])
FirstKey(S) == CHOOSE k \in S : \A j \in S : j = k \/ KeyLess(k, j)

inject_guest_breakpoint(m, hva, a) ==
    IF a = "aarch64"
    THEN [ok |-> TRUE, saved |-> m[hva], mem |-> [m EXCEPT ![hva] = GUEST_BRK_INSN(a)]]
    ELSE IF a = "x86_64"
    THEN [ok |-> TRUE, saved |-> <<m[hva][1], 0, 0, 0>>,
          mem |-> [m EXCEPT ![hva][1] = GUEST_BRK_INSN(a)[1]]]
    ELSE [ok |-> FALSE, saved |-> <<0, 0, 0, 0>>, mem |-> m]

restore_guest_breakpoint(m, hva, saved_insn, a) ==
    IF a = "aarch64"
    THEN [ok |-> TRUE, mem |-> [m EXCEPT ![hva] = saved_insn]]
    ELSE IF a = "x86_64"
    THEN [ok |-> TRUE, mem |-> [m EXCEPT ![hva][1] = saved_insn[1]]]
    ELSE [ok |-> FALSE, mem |-> m]

\* evict_one_stale_brk with the capacity test off by one: nothing is evicted
\* from a registry that holds exactly STALE_BRK_MAX_ENTRIES entries.
evict_one_stale_brk_late(g) ==
    IF Cardinality(DOMAIN g.stale) <= STALE_BRK_MAX_ENTRIES
    THEN g
    ELSE LET key == FirstKey(DOMAIN g.stale)
         IN  [g EXCEPT !.stale = Remove(@, key), !.order = Without(@, key),
                       !.abs = Remove(@, key),
                       !.ev = [victim |-> Some(key), oldest |-> Some(Head(g.order))]]

evict_one_stale_brk(g) ==
    IF Cardinality(DOMAIN g.stale) < STALE_BRK_MAX_ENTRIES
    THEN g
    ELSE IF DOMAIN g.stale = {}
    THEN g
    ELSE LET key == FirstKey(DOMAIN g.stale)
         IN  [g EXCEPT !.stale = Remove(@, key), !.order = Without(@, key),
                       !.abs = Remove(@, key),
                       !.ev = [victim |-> Some(key), oldest |-> Some(Head(g.order))]]

remember_stale_brk(g, key, hva, saved_insn) ==
    LET g1 == evict_one_stale_brk(g)
        entry == [hva |-> hva, saved_insn |-> saved_insn,
                  retries_left |-> STALE_BRK_RETRY_BUDGET]
    IN  [g1 EXCEPT !.stale = (key :> entry) @@ @,
                   !.order = Append(Without(@, key), key),
                   !.abs = (key :> 0) @@ @]

clear_stale_brk(g, key) ==
    [g EXCEPT !.stale = Remove(@, key), !.order = Without(@, key), !.abs = Remove(@, key)]

GuestKprobeEntry(key, prog_id, is_ret, mode) ==
    [vm_id |-> key[1], gva |-> key[2], mode |-> mode, prog_id |-> prog_id,
     hits |-> 0, is_ret |-> is_ret, state |-> "Registered",
     saved_insn |-> None, resolved_gpa |-> None, resolved_hva |-> None]

\* register without the conflict check: a second registration replaces the entry.
register_overwrite(g, key, prog_id, is_ret, mode) ==
    Ok([clear_stale_brk(g, key) EXCEPT
           !.probes = (key :> GuestKprobeEntry(key, prog_id, is_ret, mode)) @@ @])

register(g, key, prog_id, is_ret, mode) ==
    IF key \in DOMAIN g.probes
    THEN Err(g)
    ELSE LET g1 == clear_stale_brk(g, key)
         IN  Ok([g1 EXCEPT !.probes = (key :> GuestKprobeEntry(key, prog_id, is_ret, mode)) @@ @])

set_stage2_executable(g, vm_id, gpa, executable, env) ==
    IF env = "s2"
    THEN Err(g)
    ELSE Ok([g EXCEPT !.s2[<<vm_id, gpa>>] = executable])

enable_stage2(g, key, env) ==
    IF env = "ttbr1"
    THEN Err(g)
    ELSE IF env = "xlate"
    THEN Err(g)
    ELSE LET gpa == gva_to_gpa_with_vm(key[2], key[1])
             r == set_stage2_executable(g, key[1], gpa, FALSE, env)
         IN  IF ~r.ok
             THEN Err(r.g)
             ELSE Ok([r.g EXCEPT !.probes[key].resolved_gpa = Some(gpa),
                                 !.probes[key].state = "Enabled"])

\* enable_brk patching the guest text before the translation result is checked.
enable_brk_patch_first(g, key, env, a) ==
    IF env = "ttbr1"
    THEN Err(g)
    ELSE LET g1 == clear_stale_brk(g, key)
             hva == gva_to_hva_for_vm(key[2], key[1])
             inj == inject_guest_breakpoint(g1.mem, hva, a)
         IN  IF ~inj.ok
             THEN Err(g1)
             ELSE IF env = "xlate"
             THEN Err([g1 EXCEPT !.mem = inj.mem])
             ELSE Ok([g1 EXCEPT !.mem = inj.mem,
                                !.probes[key].saved_insn = Some(inj.saved),
                                !.probes[key].resolved_hva = Some(hva),
                                !.probes[key].state = "Enabled",
                                !.pre = (key :> g1.mem[hva]) @@ @])

enable_brk(g, key, env, a) ==
    IF env = "ttbr1"
    THEN Err(g)
    ELSE LET g1 == clear_stale_brk(g, key)
         IN  IF env = "xlate"
             THEN Err(g1)
             ELSE LET hva == gva_to_hva_for_vm(key[2], key[1])
                      inj == inject_guest_breakpoint(g1.mem, hva, a)
                  IN  IF ~inj.ok
                      THEN Err(g1)
                      ELSE Ok([g1 EXCEPT !.mem = inj.mem,
                                         !.probes[key].saved_insn = Some(inj.saved),
                                         !.probes[key].resolved_hva = Some(hva),
                                         !.probes[key].state = "Enabled",
                                         !.pre = (key :> g1.mem[hva]) @@ @])

enable(g, key, env, a) ==
    IF key \notin DOMAIN g.probes
    THEN Err(g)
    ELSE IF g.probes[key].state = "Enabled"
    THEN Ok(g)
    ELSE IF g.mock = Some(key)
    THEN Err([g EXCEPT !.mock = None])
    ELSE IF g.probes[key].mode = "Stage2Fault"
    THEN enable_stage2(g, key, env)
    ELSE enable_brk(g, key, env, a)

\* disable_stage2 that leaves the resolved guest physical address in the entry.
disable_stage2_keep_gpa(g, key, env) ==
    LET e == g.probes[key]
        r == IF IsSome(e.resolved_gpa)
             THEN set_stage2_executable(g, key[1], Unwrap(e.resolved_gpa), TRUE, env)
             ELSE Ok(g)
    IN  IF ~r.ok
        THEN Err(r.g)
        ELSE Ok([r.g EXCEPT !.probes[key].state = "Disabled"])

disable_stage2(g, key, env) ==
    LET e == g.probes[key]
        r == IF IsSome(e.resolved_gpa)
             THEN set_stage2_executable(g, key[1], Unwrap(e.resolved_gpa), TRUE, env)
             ELSE Ok(g)
    IN  IF ~r.ok
        THEN Err(r.g)
        ELSE Ok([r.g EXCEPT !.probes[key].resolved_gpa = None,
                            !.probes[key].state = "Disabled"])

\* disable_brk that forgets to write the saved instruction back.
disable_brk_no_restore(g, key, a) ==
    LET e == g.probes[key]
        both == IsSome(e.resolved_hva) /\ IsSome(e.saved_insn)
        g1 == IF both
              THEN remember_stale_brk(g, key, Unwrap(e.resolved_hva), Unwrap(e.saved_insn))
              ELSE g
    IN  Ok([g1 EXCEPT !.pre = Remove(@, key),
                      !.rp = IF both THEN Some(g.pre[key]) ELSE None,
                      !.probes[key].saved_insn = None,
                      !.probes[key].resolved_hva = None,
                      !.probes[key].state = "Disabled"])

disable_brk(g, key, a) ==
    LET e == g.probes[key]
        both == IsSome(e.resolved_hva) /\ IsSome(e.saved_insn)
        g1 == IF both
              THEN remember_stale_brk(g, key, Unwrap(e.resolved_hva), Unwrap(e.saved_insn))
              ELSE g
        rst == IF both
               THEN restore_guest_breakpoint(g1.mem, Unwrap(e.resolved_hva), Unwrap(e.saved_insn), a)
               ELSE [ok |-> TRUE, mem |-> g1.mem]
    IN  IF ~rst.ok
        THEN Err(g1)
        ELSE Ok([g1 EXCEPT !.mem = rst.mem,
                           !.pre = Remove(@, key),
                           !.rp = IF both THEN Some(g.pre[key]) ELSE None,
                           !.probes[key].saved_insn = None,
                           !.probes[key].resolved_hva = None,
                           !.probes[key].state = "Disabled"])

\* disable that reports a probe that is absent or not enabled as an error.
disable_strict(g, key, env, a) ==
    IF key \notin DOMAIN g.probes
    THEN Err(g)
    ELSE IF g.probes[key].state \in {"Disabled", "Registered"}
    THEN Err(g)
    ELSE IF g.probes[key].mode = "Stage2Fault"
    THEN disable_stage2(g, key, env)
    ELSE disable_brk(g, key, a)

disable(g, key, env, a) ==
    IF key \notin DOMAIN g.probes
    THEN Ok(g)
    ELSE IF g.probes[key].state \in {"Disabled", "Registered"}
    THEN Ok(g)
    ELSE IF g.probes[key].mode = "Stage2Fault"
    THEN disable_stage2(g, key, env)
    ELSE disable_brk(g, key, a)

unregister(g, key, env, a) ==
    LET r == disable(g, key, env, a)
    IN  IF ~r.ok
        THEN Err(r.g)
        ELSE Ok([r.g EXCEPT !.probes = Remove(@, key)])

\* attach without the rollback of a failed enable.
attach_no_rollback(g, key, prog_id, is_ret, mode, env, a) ==
    LET r1 == register(g, key, prog_id, is_ret, mode)
    IN  IF ~r1.ok
        THEN Err(r1.g)
        ELSE enable(r1.g, key, env, a)

attach(g, key, prog_id, is_ret, mode, env, a) ==
    LET r1 == register(g, key, prog_id, is_ret, mode)
    IN  IF ~r1.ok
        THEN Err(r1.g)
        ELSE LET r2 == enable(r1.g, key, env, a)
             IN  IF ~r2.ok
                 THEN Err(unregister(r2.g, key, env, a).g)
                 ELSE Ok(r2.g)

detach(g, key, env, a) == unregister(g, key, env, a)

\* consume_stale_brk dropping the entry one trap too late.
consume_stale_brk_late(g, key, a) ==
    IF key \notin DOMAIN g.stale
    THEN [g |-> g, retry |-> FALSE]
    ELSE LET st == g.stale[key]
             g1 == IF st.retries_left <= 0
                   THEN [g EXCEPT !.stale = Remove(@, key), !.order = Without(@, key)]
                   ELSE [g EXCEPT !.stale[key].retries_left = @ - 1]
             rst == restore_guest_breakpoint(g1.mem, st.hva, st.saved_insn, a)
         IN  IF ~rst.ok
             THEN [g |-> g1, retry |-> FALSE]
             ELSE [g |-> [g1 EXCEPT !.mem = rst.mem, !.abs[key] = @ + 1], retry |-> TRUE]

\* Returns the outcome of restoring the stale word, or retry = FALSE when
\* there is no stale entry for the key.
consume_stale_brk(g, key, a) ==
    IF key \notin DOMAIN g.stale
    THEN [g |-> g, retry |-> FALSE]
    ELSE LET st == g.stale[key]
             g1 == IF st.retries_left <= 1
                   THEN [g EXCEPT !.stale = Remove(@, key), !.order = Without(@, key)]
                   ELSE [g EXCEPT !.stale[key].retries_left = @ - 1]
             rst == restore_guest_breakpoint(g1.mem, st.hva, st.saved_insn, a)
         IN  IF ~rst.ok
             THEN [g |-> g1, retry |-> FALSE]
             ELSE [g |-> [g1 EXCEPT !.mem = rst.mem, !.abs[key] = @ + 1], retry |-> TRUE]

\* GuestKprobeRegistry::lookup: the key of the entry found, VM-specific first.
lookup(ps, vm_id, gva) ==
    IF <<vm_id, gva>> \in DOMAIN ps
    THEN Some(<<vm_id, gva>>)
    ELSE IF <<0, gva>> \in DOMAIN ps
    THEN Some(<<0, gva>>)
    ELSE None

lookup_enabled(ps, vm_id, gva) ==
    LET found == lookup(ps, vm_id, gva)
    IN  IF ~IsSome(found)
        THEN None
        ELSE IF ps[Unwrap(found)].state # "Enabled"
        THEN None
        ELSE Some(<<ps[Unwrap(found)].prog_id, ps[Unwrap(found)].is_ret>>)

\* record_hit counting the hit on the wildcard entry first.
record_hit_wildcard_first(ps, vm_id, gva) ==
    IF <<0, gva>> \in DOMAIN ps
    THEN [ps EXCEPT ![<<0, gva>>].hits = @ + 1]
    ELSE IF <<vm_id, gva>> \in DOMAIN ps
    THEN [ps EXCEPT ![<<vm_id, gva>>].hits = @ + 1]
    ELSE ps

record_hit(ps, vm_id, gva) ==
    IF <<vm_id, gva>> \in DOMAIN ps
    THEN [ps EXCEPT ![<<vm_id, gva>>].hits = @ + 1]
    ELSE IF <<0, gva>> \in DOMAIN ps
    THEN [ps EXCEPT ![<<0, gva>>].hits = @ + 1]
    ELSE ps

record_probe_hit(g, vm_id, gva) ==
    IF ~IsSome(lookup(g.probes, vm_id, gva))
    THEN g
    ELSE [g EXCEPT !.probes = record_hit(@, vm_id, gva)]

\* ---------------------------------------------------------------------------
\* The map registry (map_ops.rs) and maps::create / maps::destroy (maps.rs)
\* ---------------------------------------------------------------------------
MapTypes == {"Array", "HashMap", "LruHash", "Queue", "RingBuf"}

\* A map as the registry holds it: its type and, for the maps that queue
\* elements, the elements pushed and not yet popped.
UnifiedMap(map_type) == [map_type |-> map_type, data |-> <<>>]

IsLive(reg, map_fd) == map_fd + 1 \in DOMAIN reg /\ IsSome(reg[map_fd + 1])
LiveMaps(reg) == {i - 1 : i \in {j \in DOMAIN reg : IsSome(reg[j])}}

\* register_map that takes the first slot whether it is empty or not.
register_map_first_slot(reg, map) ==
    IF Len(reg) > 0
    THEN [reg |-> [reg EXCEPT ![1] = Some(map)], fd |-> 0]
    ELSE [reg |-> Append(reg, Some(map)), fd |-> Len(reg)]

register_map(reg, map) ==
    IF \E i \in DOMAIN reg : reg[i] = None
    THEN LET i == CHOOSE i \in DOMAIN reg :
                      reg[i] = None /\ \A j \in 1..(i - 1) : reg[j] # None
         IN  [reg |-> [reg EXCEPT ![i] = Some(map)], fd |-> i - 1]
    ELSE [reg |-> Append(reg, Some(map)), fd |-> Len(reg)]

unregister_map(reg, map_fd) ==
    IF ~IsLive(reg, map_fd)
    THEN [reg |-> reg, ok |-> FALSE]
    ELSE [reg |-> [reg EXCEPT ![map_fd + 1] = None], ok |-> TRUE]

\* def.create_ok is the answer of the map library's bpf_map_create to the
\* definition (its sizes, the memory left).
create(reg, def) ==
    IF ~def.create_ok
    THEN [reg |-> reg, ok |-> FALSE, fd |-> 0]
    ELSE LET r == register_map(reg, UnifiedMap(def.map_type))
         IN  [reg |-> r.reg, ok |-> TRUE, fd |-> r.fd]

destroy(reg, map_id) == unregister_map(reg, map_id)

\* get_unified_map_from_fd with push_elem / pop_elem. push_ok is the answer of
\* the map to the push (it refuses when it is full or does not take pushes);
\* a pop fails on a map with nothing queued.
push_elem(reg, map_fd, elem, push_ok) ==
    IF ~IsLive(reg, map_fd) \/ ~push_ok
    THEN [reg |-> reg, ok |-> FALSE]
    ELSE [reg |-> [reg EXCEPT ![map_fd + 1] =
                      Some([Unwrap(@) EXCEPT !.data = Append(@, elem)])],
          ok |-> TRUE]

pop_elem(reg, map_fd) ==
    IF ~IsLive(reg, map_fd) \/ Unwrap(reg[map_fd + 1]).data = <<>>
    THEN [reg |-> reg, ok |-> FALSE, elem |-> None]
    ELSE [reg |-> [reg EXCEPT ![map_fd + 1] =
                      Some([Unwrap(@) EXCEPT !.data = Tail(@)])],
          ok |-> TRUE,
          elem |-> Some(Head(Unwrap(reg[map_fd + 1]).data))]

\* ---------------------------------------------------------------------------
\* The event pipeline (event.rs)
\* ---------------------------------------------------------------------------
\* The locks of the event path: the mutexes around RINGBUF_FD, MAP_REGISTRY,
\* FALLBACK_EVENTS, EVENT_NAME_MAP, STATS_REGISTRY and NAME_TABLE.
Locks == {"RINGBUF_FD", "MAP_REGISTRY", "FALLBACK_EVENTS", "EVENT_NAME_MAP",
          "STATS_REGISTRY", "NAME_TABLE"}

CPUs == 1..MaxCpu

\* A CPU outside emit_event: no record, no local.
\* A CPU that is inside no operation.
ThrIdle == [pc |-> "idle", loc |-> None]

CpuIdle == [pc |-> "idle", event |-> None, fd |-> None, current_min |-> None]

\* The pipeline state as one value, so that operations compose.
E == [reg |-> MAP_REGISTRY, fd |-> RINGBUF_FD, fb |-> FALLBACK_EVENTS,
      names |-> NAME_TABLE, name_map |-> EVENT_NAME_MAP, stats |-> STATS_REGISTRY,
      now |-> time_ns, dl |-> delivered]

\* TraceEvent::new; the argument slots are not tracked, and the cpu id is 0
\* unless the caller runs on a CPU of the per-CPU model.
TraceEvent_new(probe_type, event_id, now) ==
    [timestamp_ns |-> now, probe_type |-> probe_type, cpu_id |-> 0, vm_id |-> 0,
     event_id |-> event_id, name_offset |-> 0, duration_ns |-> 0]

IndexOf(seq, x) == CHOOSE i \in DOMAIN seq : seq[i] = x /\ \A j \in 1..(i - 1) : seq[j] # x

register_event_name(names, name) ==
    IF \E i \in DOMAIN names : names[i] = name
    THEN [names |-> names, idx |-> IndexOf(names, name) - 1]
    ELSE IF Len(names) >= U16_MAX
    THEN [names |-> names, idx |-> U16_MAX]
    ELSE [names |-> Append(names, name), idx |-> Len(names)]

remember_event_name(name_map, event_id, name_offset) ==
    IF name_offset = U16_MAX \/ event_id \in DOMAIN name_map
    THEN name_map
    ELSE (event_id :> name_offset) @@ name_map

\* ProbeStats::new; duration_min = None stands for u64::MAX (no sample yet).
ProbeStats_new ==
    [count |-> 0, last_ts |-> 0, duration_samples |-> 0, duration_min |-> None,
     duration_max |-> 0, duration_sum |-> 0, histogram |-> 0]

\* ProbeStats::record; histogram is the number of samples in the buckets of
\* the latency histogram.
ProbeStats_record(st, timestamp, duration_ns) ==
    LET st1 == [st EXCEPT !.count = @ + 1, !.last_ts = timestamp]
    IN  IF duration_ns = 0
        THEN st1
        ELSE [st1 EXCEPT !.duration_samples = @ + 1,
                         !.duration_min = IF @ = None \/ duration_ns < Unwrap(@)
                                          THEN Some(duration_ns) ELSE @,
                         !.duration_max = IF duration_ns > @ THEN duration_ns ELSE @,
                         !.duration_sum = @ + duration_ns,
                         !.histogram = @ + 1]

get_event_name(names, offset) ==
    IF offset + 1 \in DOMAIN names THEN Some(names[offset + 1]) ELSE None

get_or_create_stats(stats, event_id) ==
    IF event_id \in DOMAIN stats THEN stats ELSE (event_id :> ProbeStats_new) @@ stats

\* An append that tests the length with > instead of >=.
fallback_push_off_by_one(fb, event) ==
    Append(IF Len(fb) > FALLBACK_QUEUE_CAPACITY THEN Tail(fb) ELSE fb, event)

fallback_push(fb, event) ==
    Append(IF Len(fb) >= FALLBACK_QUEUE_CAPACITY THEN Tail(fb) ELSE fb, event)

Min(a, b) == IF a < b THEN a ELSE b

\* A pop that takes the newest records first (pop_back for pop_front).
fallback_pop_back(fb, max_events) ==
    LET n == IF max_events = 0 THEN Len(fb) ELSE Min(max_events, Len(fb))
    IN  [fb |-> SubSeq(fb, 1, Len(fb) - n),
         out |-> [i \in 1..n |-> fb[Len(fb) + 1 - i]]]

\* max_events = 0 lifts the limit.
fallback_pop(fb, max_events) ==
    LET n == IF max_events = 0 THEN Len(fb) ELSE Min(max_events, Len(fb))
    IN  [fb |-> SubSeq(fb, n + 1, Len(fb)), out |-> SubSeq(fb, 1, n)]

\* A push that keeps the software copy only when the ring-buffer map did not
\* take the record.
ringbuf_push_either(e, event, push_ok) ==
    LET r == IF IsSome(e.fd)
             THEN push_elem(e.reg, Unwrap(e.fd), event, push_ok)
             ELSE [reg |-> e.reg, ok |-> FALSE]
    IN  [e |-> [e EXCEPT !.reg = r.reg,
                         !.fb = IF r.ok THEN @ ELSE fallback_push(@, event)],
         pushed |-> r.ok]

ringbuf_push(e, event, push_ok) ==
    LET r == IF IsSome(e.fd)
             THEN push_elem(e.reg, Unwrap(e.fd), event, push_ok)
             ELSE [reg |-> e.reg, ok |-> FALSE]
    IN  [e |-> [e EXCEPT !.reg = r.reg, !.fb = fallback_push(@, event)],
         pushed |-> r.ok]

\* The pop loop of consume_events: pops until the limit (None: no limit) is
\* reached or a pop fails.
RECURSIVE PopRing(_, _, _, _)
PopRing(reg, map_fd, limit, events) ==
    IF IsSome(limit) /\ Len(events) >= Unwrap(limit)
    THEN [reg |-> reg, events |-> events]
    ELSE LET r == pop_elem(reg, map_fd)
         IN  IF ~r.ok
             THEN [reg |-> reg, events |-> events]
             ELSE PopRing(r.reg, map_fd, limit, Append(events, Unwrap(r.elem)))

CountIn(events, ts) ==
    Cardinality({i \in DOMAIN events : events[i].timestamp_ns = ts})

consume_events(e, max_events) ==
    LET limit == IF max_events = 0 THEN None ELSE Some(max_events)
        r == IF IsSome(e.fd)
             THEN PopRing(e.reg, Unwrap(e.fd), limit, <<>>)
             ELSE [reg |-> e.reg, events |-> <<>>]
        more == IsSome(limit) => Len(r.events) < Unwrap(limit)
        remain == IF limit = None THEN 0 ELSE Unwrap(limit) - Len(r.events)
        f == IF more THEN fallback_pop(e.fb, remain) ELSE [fb |-> e.fb, out |-> <<>>]
        events == r.events \o f.out
    IN  [e |-> [e EXCEPT !.reg = r.reg, !.fb = f.fb,
                         !.dl = [ts \in DOMAIN @ |-> @[ts] + CountIn(events, ts)]],
         events |-> events]

\* The bound program of an attachment is run for its effects only and its
\* result is discarded; it is outside the pipeline state.
emit_event(e, event, push_ok) ==
    LET e1 == ringbuf_push(e, event, push_ok).e
    IN  [e1 EXCEPT !.name_map = remember_event_name(@, event.event_id, event.name_offset),
                   !.stats = [get_or_create_stats(@, event.event_id) EXCEPT
                                 ![event.event_id] =
                                     ProbeStats_record(@, event.timestamp_ns, event.duration_ns)],
                   !.dl = (event.timestamp_ns :> 0) @@ @]

\* The clock read by TraceEvent::new, one tick after the last record's.
Tick(e) == [e EXCEPT !.now = @ + 1]

\* init_ringbuf_with_size; a size in KB whose byte count does not fit u32 is
\* outside the sizes of the model.
RECURSIVE IsPowerOfTwo(_)
IsPowerOfTwo(n) == n = 1 \/ (n > 1 /\ n % 2 = 0 /\ IsPowerOfTwo(n \div 2))

init_ringbuf_with_size(e, size_kb, create_ok) ==
    LET size_bytes == size_kb * 1024
    IN  IF size_bytes = 0 \/ ~IsPowerOfTwo(size_bytes) \/ size_bytes % PAGE_SIZE # 0
        THEN e
        ELSE LET r == create(e.reg, [map_type |-> "RingBuf", create_ok |-> create_ok])
             IN  IF r.ok THEN [e EXCEPT !.reg = r.reg, !.fd = Some(r.fd)] ELSE e

\* emit_guest_event (handler.rs). vm_id as u16 and pc & 0xffff_ffff leave the
\* VM ids and guest addresses of the model unchanged.
emit_guest_event(e, vm_id, pc_or_gva, is_ret, push_ok) ==
    LET e1 == Tick(e)
        ev0 == TraceEvent_new(IF is_ret THEN PROBE_KRETPROBE ELSE PROBE_KPROBE,
                              pc_or_gva, e1.now)
        n == register_event_name(e1.names, IF is_ret THEN "kretprobe" ELSE "kprobe")
        event == [ev0 EXCEPT !.vm_id = vm_id % (U16_MAX + 1), !.name_offset = n.idx]
    IN  emit_event([e1 EXCEPT !.names = n.names], event, push_ok)

\* The handlers return what the code returns (handled) and, for the caller,
\* the binding that fired: Some(<<prog_id, is_ret>>) when a probe matched.
handle_stage2_exec_fault(g, e, vm_id, gpa, gva, is_exec, push_ok) ==
    IF ~is_exec
    THEN [g |-> g, e |-> e, handled |-> FALSE, fired |-> None]
    ELSE LET m == lookup_enabled(g.probes, vm_id, gva)
         IN  IF IsSome(m)
             THEN [g |-> record_probe_hit(g, vm_id, gva),
                   e |-> emit_guest_event(e, vm_id, gva, Unwrap(m)[2], push_ok),
                   handled |-> FALSE, fired |-> m]
             ELSE [g |-> g, e |-> e, handled |-> FALSE, fired |-> None]

handle_guest_brk(g, e, vm_id, pc, iss, push_ok) ==
    LET m == lookup_enabled(g.probes, vm_id, pc)
    IN  IF IsSome(m)
        THEN [g |-> record_probe_hit(g, vm_id, pc),
              e |-> emit_guest_event(e, vm_id, pc, Unwrap(m)[2], push_ok),
              handled |-> FALSE, fired |-> m]
        ELSE [g |-> g, e |-> e, handled |-> FALSE, fired |-> None]

\* ---------------------------------------------------------------------------
\* Guest-probe actions
\* ---------------------------------------------------------------------------
SetG(g) ==
    /\ probes' = g.probes
    /\ stale' = g.stale
    /\ staleOrder' = g.order
    /\ mem' = g.mem
    /\ s2exec' = g.s2
    /\ mockFail' = g.mock
    /\ preWord' = g.pre
    /\ absorbed' = g.abs

SetE(e) ==
    /\ MAP_REGISTRY' = e.reg
    /\ RINGBUF_FD' = e.fd
    /\ FALLBACK_EVENTS' = e.fb
    /\ NAME_TABLE' = e.names
    /\ EVENT_NAME_MAP' = e.name_map
    /\ STATS_REGISTRY' = e.stats
    /\ time_ns' = e.now
    /\ delivered' = e.dl

\* What the ring-buffer map may answer to a push: nothing is pushed without
\* a ring buffer.
PushOutcomes(fd) == IF IsSome(fd) THEN BOOLEAN ELSE {FALSE}

Ret(op, key, ok, detail, g) ==
    [op |-> op, key |-> key, ok |-> ok, detail |-> detail, pre |-> g.rp, ev |-> g.ev,
     fired |-> g.fired]

Register(K, B, M) ==
    \E key \in K, b \in B, mode \in M :
        LET r == register(G, key, b[1], b[2], mode)
        IN  /\ SetG(r.g)
            /\ ret' = Ret("register", key, r.ok, "", r.g)
            /\ UNCHANGED <<arch, nTraps, mapVars, eventVars, loadVars>>

Enable(K) ==
    \E key \in K, env \in Envs :
        LET r == enable(G, key, env, arch)
            was == IF key \in DOMAIN probes THEN probes[key].state ELSE "absent"
        IN  /\ SetG(r.g)
            /\ ret' = Ret("enable", key, r.ok, was, r.g)
            /\ UNCHANGED <<arch, nTraps, mapVars, eventVars, loadVars>>

Disable(K) ==
    \E key \in K, env \in DisableEnvs :
        LET r == disable(G, key, env, arch)
            was == IF key \in DOMAIN probes THEN probes[key].state ELSE "absent"
        IN  /\ SetG(r.g)
            /\ ret' = Ret("disable", key, r.ok, was, r.g)
            /\ UNCHANGED <<arch, nTraps, mapVars, eventVars, loadVars>>

Attach(K, B, M) ==
    \E key \in K, b \in B, mode \in M, env \in Envs :
        LET r == attach(G, key, b[1], b[2], mode, env, arch)
            was == IF key \in DOMAIN probes THEN "conflict" ELSE "fresh"
        IN  /\ SetG(r.g)
            /\ ret' = Ret("attach", key, r.ok, was, r.g)
            /\ UNCHANGED <<arch, nTraps, mapVars, eventVars, loadVars>>

Detach(K) ==
    \E key \in K, env \in DisableEnvs :
        LET r == detach(G, key, env, arch)
            was == IF key \in DOMAIN probes THEN probes[key].state ELSE "absent"
        IN  /\ SetG(r.g)
            /\ ret' = Ret("detach", key, r.ok, was, r.g)
            /\ UNCHANGED <<arch, nTraps, mapVars, eventVars, loadVars>>

\* install_mock_backend_fail_on_enable
InstallMockFail(K) ==
    \E key \in K :
        /\ mockFail' = Some(key)
        /\ ret' = Ret("install_mock_backend_fail_on_enable", key, TRUE, "", G)
        /\ UNCHANGED <<arch, probes, stale, staleOrder, mem, s2exec, preWord, absorbed, nTraps>>
        /\ UNCHANGED <<mapVars, eventVars, loadVars>>

ConsumeStaleBrk(K, cap) ==
    \E key \in K :
        LET r == consume_stale_brk(G, key, arch)
            was == IF key \in DOMAIN stale THEN "stale" ELSE "absent"
        IN  /\ nTraps < cap
            /\ nTraps' = nTraps + 1
            /\ SetG(r.g)
            /\ ret' = Ret("consume_stale_brk", key, r.retry, was, r.g)
            /\ UNCHANGED <<arch, mapVars, eventVars, loadVars>>

\* The same operation, with no bound on the number of traps delivered.
ConsumeStaleBrkAny(K) ==
    \E key \in K :
        LET r == consume_stale_brk(G, key, arch)
            was == IF key \in DOMAIN stale THEN "stale" ELSE "absent"
        IN  /\ SetG(r.g)
            /\ ret' = Ret("consume_stale_brk", key, r.retry, was, r.g)
            /\ UNCHANGED <<arch, nTraps, mapVars, eventVars, loadVars>>

HandleGuestBrk(K, cap) ==
    \E key \in K, push_ok \in PushOutcomes(RINGBUF_FD) :
        LET r == handle_guest_brk(G, E, key[1], key[2], 0, push_ok)
            was == IF IsSome(lookup_enabled(probes, key[1], key[2])) THEN "enabled"
                   ELSE IF key \in DOMAIN stale THEN "stale" ELSE "none"
        IN  /\ nTraps < cap
            /\ nTraps' = nTraps + 1
            /\ SetG(r.g)
            /\ ret' = Ret("handle_guest_brk", key, r.handled, was, [r.g EXCEPT !.fired = r.fired])
            /\ SetE(r.e)
            /\ UNCHANGED <<arch, evret, cpuVars, loadVars>>

HandleStage2ExecFault(K, cap) ==
    \E key \in K, is_exec \in BOOLEAN, push_ok \in PushOutcomes(RINGBUF_FD) :
        LET r == handle_stage2_exec_fault(G, E, key[1], gva_to_gpa_with_vm(key[2], key[1]),
                                          key[2], is_exec, push_ok)
            was == IF ~is_exec THEN "not_exec"
                   ELSE IF IsSome(lookup_enabled(probes, key[1], key[2])) THEN "enabled"
                   ELSE "none"
        IN  /\ nTraps < cap
            /\ nTraps' = nTraps + 1
            /\ SetG(r.g)
            /\ ret' = Ret("handle_stage2_exec_fault", key, r.handled, was,
                         [r.g EXCEPT !.fired = r.fired])
            /\ SetE(r.e)
            /\ UNCHANGED <<arch, evret, cpuVars, loadVars>>

\* The text word at the address of every filler probe.
FillerWord == <<120, 86, 52, 18>>

\* The state after init(), on a build for one of the targets A, with the
\* guest text holding words of W.
InitGuestWith(A, W) ==
    /\ arch \in A
    /\ probes = <<>>
    /\ stale = <<>>
    /\ staleOrder = <<>>
    /\ mem \in [KeyHvas -> W]
    /\ s2exec = [x \in VmIds \X Gpas |-> TRUE]
    /\ mockFail = None
    /\ preWord = <<>>
    /\ absorbed = <<>>
    /\ nTraps = 0
    /\ ret = Ret("init", <<0, 0>>, TRUE, "", [rp |-> None, ev |-> NoEvict, fired |-> None])

InitGuest == InitGuestWith(Archs, OrigWords)

\* No map, no ring buffer, no record emitted yet.
InitEvents ==
    /\ MAP_REGISTRY = <<>>
    /\ RINGBUF_FD = None
    /\ FALLBACK_EVENTS = <<>>
    /\ NAME_TABLE = <<>>
    /\ EVENT_NAME_MAP = <<>>
    /\ STATS_REGISTRY = <<>>
    /\ time_ns = 0
    /\ delivered = <<>>
    /\ evret = <<>>
    /\ cpu = [c \in CPUs |-> CpuIdle]
    /\ mutex = [l \in Locks |-> 0]
    /\ emitted = <<>>

\* The host text words before any probe.
HostText == (1 :> <<120, 86, 52, 18>>) @@ (2 :> <<31, 32, 3, 213>>)

\* No program loaded yet, no host probe registered.
InitLoader ==
    /\ PROGRAM_REGISTRY = <<>>
    /\ clones = <<>>
    /\ ATTACHMENTS = <<>>
    /\ attret = [op |-> "init", name |-> "", ok |-> TRUE, err |-> "",
                 live |-> FALSE, loaded |-> FALSE]
    /\ loadret = [op |-> "init", ok |-> TRUE, err |-> "", before |-> {}, id |-> 0]
    /\ KPROBE_REGISTRY = [probes |-> <<>>, name_map |-> <<>>]
    /\ text = HostText
    /\ points = <<>>
    /\ hret = [op |-> "init", ok |-> TRUE, err |-> "", name |-> "", addr |-> 0,
               prog_id |-> 0, is_ret |-> FALSE, both |-> FALSE]
    /\ SLOT_BITMAP = {}
    /\ insn = <<>>
    /\ ORIGINAL_PC = [c \in CPUs |-> 0]
    /\ sret = [op |-> "init", ok |-> TRUE, addr |-> None, cpu |-> 0, pc |-> 0, new_pc |-> None]
    /\ thr = [c \in CPUs |-> ThrIdle]
    /\ LOOKUP_BUFFER = 0

vars == <<guestVars, mapVars, eventVars, loadVars>>

Init == InitGuest /\ InitEvents /\ InitLoader

\* The administrative operations of the guest-probe manager and its trap
\* handlers, on every key.
Next ==
    \/ Register(Keys, Bindings, Modes)
    \/ Enable(Keys)
    \/ Disable(Keys)
    \/ Attach(Keys, Bindings, Modes)
    \/ Detach(Keys)
    \/ InstallMockFail(MockKeys)
    \/ ConsumeStaleBrk(Keys, MaxTraps)
    \/ HandleGuestBrk(Keys, MaxTraps)
    \/ HandleStage2ExecFault(Keys, MaxTraps)

Spec == Init /\ [][Next]_vars

\* ---------------------------------------------------------------------------
\* The stale registry near its capacity: the state after StalePrefill
\* BrkInject probes, on the keys FillerKeys, were attached and then detached in
\* ascending key order (the filler probes are on targets where BRK injection
\* works, so the build is one of those).
\* ---------------------------------------------------------------------------
FillerOrder == [i \in 1..StalePrefill |-> <<FillerVm, MaxGva + i>>]

InitStale ==
    /\ arch \in {"aarch64", "x86_64"}
    /\ probes = <<>>
    /\ stale = [k \in FillerKeys |->
                  [hva |-> gva_to_hva_for_vm(k[2], k[1]),
                   saved_insn |-> IF arch = "aarch64" THEN FillerWord
                                  ELSE <<FillerWord[1], 0, 0, 0>>,
                   retries_left |-> STALE_BRK_RETRY_BUDGET]]
    /\ staleOrder = FillerOrder
    /\ mem \in [KeyHvas -> {FillerWord}]
    /\ s2exec = [x \in VmIds \X Gpas |-> TRUE]
    /\ mockFail = None
    /\ preWord = <<>>
    /\ absorbed = [k \in FillerKeys |-> 0]
    /\ nTraps = 0
    /\ ret = Ret("init", <<0, 0>>, TRUE, "", [rp |-> None, ev |-> NoEvict, fired |-> None])
    /\ InitEvents
    /\ InitLoader

NextStale ==
    \/ Register(Keys, Bindings, {"BrkInject"})
    \/ Enable(Keys)
    \/ Disable(Keys)
    \/ Attach(Keys, Bindings, {"BrkInject"})
    \/ Detach(Keys)
    \/ ConsumeStaleBrk(Keys, MaxTraps)

SpecStale == InitStale /\ [][NextStale]_vars

\* ---------------------------------------------------------------------------
\* One BrkInject probe and every trap its stale entry can take.
\* ---------------------------------------------------------------------------
BudgetKey == {<<MaxVm, 1>>}

InitBudget == InitGuestWith({"aarch64", "x86_64"}, {FillerWord}) /\ InitEvents /\ InitLoader

NextBudget ==
    \/ Attach(BudgetKey, Bindings, {"BrkInject"})
    \/ Detach(BudgetKey)
    \/ ConsumeStaleBrkAny(BudgetKey)

SpecBudget == InitBudget /\ [][NextBudget]_vars

\* ---------------------------------------------------------------------------
\* The event pipeline on its own: sources emitting records, the shell
\* consuming them, with or without a ring-buffer map.
\* ---------------------------------------------------------------------------
EventIds == 1..MaxEventId
EventNames == {"tp:a"}
Durations == {0, 5}
RingSizesKb == {0, 4, 6}

\* The name offsets a source can hold: those register_event_name returned,
\* U16_MAX among them.
NameOffsets == (0..(Len(NAME_TABLE) - 1)) \cup {U16_MAX}

RegisterEventNameOf(N) ==
    \E name \in N :
        /\ NAME_TABLE' = register_event_name(NAME_TABLE, name).names
        /\ UNCHANGED <<MAP_REGISTRY, RINGBUF_FD, FALLBACK_EVENTS, EVENT_NAME_MAP,
                       STATS_REGISTRY, time_ns, delivered, evret, cpuVars>>
        /\ UNCHANGED <<guestVars, loadVars>>

RegisterEventName == RegisterEventNameOf(EventNames)

InitRingbufWithSize ==
    \E size_kb \in RingSizesKb, create_ok \in BOOLEAN :
        /\ Len(MAP_REGISTRY) < MaxMapSlots
        /\ SetE(init_ringbuf_with_size(E, size_kb, create_ok))
        /\ UNCHANGED <<evret, cpuVars, guestVars, loadVars>>

\* A host source creates a record and emits it; cap bounds the clock.
EmitEventTo(cap) ==
    \E event_id \in EventIds, name_offset \in NameOffsets, duration_ns \in Durations,
       push_ok \in PushOutcomes(RINGBUF_FD) :
        LET e1 == Tick(E)
            event == [TraceEvent_new(PROBE_TRACEPOINT, event_id, e1.now) EXCEPT
                         !.name_offset = name_offset, !.duration_ns = duration_ns]
        IN  /\ time_ns < cap
            /\ SetE(emit_event(e1, event, push_ok))
            /\ UNCHANGED <<evret, cpuVars, guestVars, loadVars>>

EmitEvent == EmitEventTo(MaxEmit)

ConsumeEventsOf(L) ==
    \E max_events \in L :
        LET r == consume_events(E, max_events)
        IN  /\ SetE(r.e)
            /\ evret' = r.events
            /\ UNCHANGED <<cpuVars, guestVars, loadVars>>

ConsumeEvents == ConsumeEventsOf(0..MaxConsume)

InitEvent == InitGuestWith({"aarch64"}, OrigWords) /\ InitEvents /\ InitLoader

NextEvent ==
    \/ RegisterEventName
    \/ InitRingbufWithSize
    \/ EmitEvent
    \/ ConsumeEvents

SpecEvent == InitEvent /\ [][NextEvent]_vars

\* ---------------------------------------------------------------------------
\* The fallback queue at its capacity: the state after FullPrefill records
\* were emitted without a ring buffer and none was consumed, then further
\* emits and consumes. The history in delivered follows the further records
\* only.
\* ---------------------------------------------------------------------------
FullRecord(i) ==
    [TraceEvent_new(PROBE_TRACEPOINT, 1, i) EXCEPT !.name_offset = U16_MAX]

InitFull ==
    /\ InitGuestWith({"aarch64"}, OrigWords)
    /\ InitLoader
    /\ MAP_REGISTRY = <<>>
    /\ RINGBUF_FD = None
    /\ FALLBACK_EVENTS = [i \in 1..FullPrefill |-> FullRecord(i)]
    /\ NAME_TABLE = <<>>
    /\ EVENT_NAME_MAP = <<>>
    /\ STATS_REGISTRY = (1 :> [ProbeStats_new EXCEPT !.count = FullPrefill,
                                                      !.last_ts = FullPrefill])
    /\ time_ns = FullPrefill
    /\ delivered = <<>>
    /\ evret = <<>>
    /\ cpu = [c \in CPUs |-> CpuIdle]
    /\ mutex = [l \in Locks |-> 0]
    /\ emitted = <<>>

NextFull ==
    \/ EmitEventTo(FullPrefill + MaxEmit)
    \/ ConsumeEventsOf({0, FullPrefill})

SpecFull == InitFull /\ [][NextFull]_vars

\* ---------------------------------------------------------------------------
\* The name table near its capacity: the state after NamePrefill distinct
\* names were registered, then further registrations. The names of this
\* specification are numbered: name i was registered i-th.
\* ---------------------------------------------------------------------------
FreshNames == (NamePrefill + 1)..(NamePrefill + MaxNewNames)

InitNames ==
    /\ InitGuestWith({"aarch64"}, OrigWords)
    /\ InitLoader
    /\ MAP_REGISTRY = <<>>
    /\ RINGBUF_FD = None
    /\ FALLBACK_EVENTS = <<>>
    /\ NAME_TABLE = [i \in 1..NamePrefill |-> i]
    /\ EVENT_NAME_MAP = <<>>
    /\ STATS_REGISTRY = <<>>
    /\ time_ns = 0
    /\ delivered = <<>>
    /\ evret = <<>>
    /\ cpu = [c \in CPUs |-> CpuIdle]
    /\ mutex = [l \in Locks |-> 0]
    /\ emitted = <<>>

NextNames == RegisterEventNameOf(FreshNames \cup {1, 2})

SpecNames == InitNames /\ [][NextNames]_vars

\* ---------------------------------------------------------------------------
\* emit_event on several CPUs: every lock acquisition, every critical
\* section and every atomic access of ProbeStats::record is a step of its
\* own, so that the calls of different CPUs interleave as the code allows.
\* ---------------------------------------------------------------------------
CpuDurations == {0, 3, 5}

\* The functions emit_event calls that take a lock, in call order, and the
\* atomic accesses of ProbeStats::record, in program order.
LockingPcs == {"ringbuf_fd", "push_elem", "fallback_push", "remember_event_name",
               "get_or_create_stats", "get_event_name"}
RecordPcs == {"count", "last_ts", "duration_samples", "load_min", "cas_min",
              "duration_max", "duration_sum", "histogram"}

LockOf(pc) ==
    CASE pc = "ringbuf_fd" -> "RINGBUF_FD"
      [] pc = "push_elem" -> "MAP_REGISTRY"
      [] pc = "fallback_push" -> "FALLBACK_EVENTS"
      [] pc = "remember_event_name" -> "EVENT_NAME_MAP"
      [] pc = "get_or_create_stats" -> "STATS_REGISTRY"
      [] pc = "get_event_name" -> "NAME_TABLE"

\* The critical section the CPU is in, up to the release of its lock, and
\* the function emit_event calls next.
locked_step(e, me, push_ok) ==
    LET event == Unwrap(me.event)
    IN  CASE me.pc = "ringbuf_fd" ->
               [e |-> e,
                me |-> [me EXCEPT !.fd = e.fd,
                                  !.pc = IF IsSome(e.fd) THEN "push_elem"
                                         ELSE "fallback_push"]]
          [] me.pc = "push_elem" ->
               [e |-> [e EXCEPT !.reg = push_elem(@, Unwrap(me.fd), event, push_ok).reg],
                me |-> [me EXCEPT !.pc = "fallback_push"]]
          [] me.pc = "fallback_push" ->
               [e |-> [e EXCEPT !.fb = fallback_push(@, event)],
                me |-> [me EXCEPT !.pc = IF event.name_offset = U16_MAX
                                         THEN "get_or_create_stats"
                                         ELSE "remember_event_name"]]
          [] me.pc = "remember_event_name" ->
               [e |-> [e EXCEPT !.name_map =
                           remember_event_name(@, event.event_id, event.name_offset)],
                me |-> [me EXCEPT !.pc = "get_or_create_stats"]]
          [] me.pc = "get_or_create_stats" ->
               [e |-> [e EXCEPT !.stats = get_or_create_stats(@, event.event_id)],
                me |-> [me EXCEPT !.pc = "count"]]
          [] me.pc = "get_event_name" ->
               [e |-> e,
                me |-> IF event.name_offset < Len(e.names)
                       THEN [me EXCEPT !.pc = "execute_attached_program"]
                       ELSE CpuIdle]

\* A store that does not compare: the update of a plain load-and-store min.
compare_exchange_blind(value, current, new, cas_ok) == [ok |-> TRUE, value |-> new]

\* AtomicU64::compare_exchange_weak on a cell holding value; cas_ok = FALSE is
\* the failure it may report although the cell holds the expected value.
compare_exchange_weak(value, current, new, cas_ok) ==
    IF value = current /\ cas_ok
    THEN [ok |-> TRUE, value |-> new]
    ELSE [ok |-> FALSE, value |-> value]

\* One atomic access of ProbeStats::record.
record_step(st, me, cas_ok) ==
    LET event == Unwrap(me.event)
        d == event.duration_ns
    IN  CASE me.pc = "count" ->
               [st |-> [st EXCEPT !.count = @ + 1], me |-> [me EXCEPT !.pc = "last_ts"]]
          [] me.pc = "last_ts" ->
               [st |-> [st EXCEPT !.last_ts = event.timestamp_ns],
                me |-> [me EXCEPT !.pc = IF d = 0 THEN "get_event_name"
                                         ELSE "duration_samples"]]
          [] me.pc = "duration_samples" ->
               [st |-> [st EXCEPT !.duration_samples = @ + 1],
                me |-> [me EXCEPT !.pc = "load_min"]]
          [] me.pc = "load_min" ->
               [st |-> st,
                me |-> [me EXCEPT !.current_min = st.duration_min, !.pc = "cas_min"]]
          [] me.pc = "cas_min" ->
               IF ~(me.current_min = None \/ d < Unwrap(me.current_min))
               THEN [st |-> st, me |-> [me EXCEPT !.pc = "duration_max"]]
               ELSE IF compare_exchange_weak(st.duration_min, me.current_min,
                                             Some(d), cas_ok).ok
               THEN [st |-> [st EXCEPT !.duration_min = Some(d)],
                     me |-> [me EXCEPT !.pc = "duration_max"]]
               ELSE [st |-> st, me |-> [me EXCEPT !.current_min = st.duration_min]]
          [] me.pc = "duration_max" ->
               [st |-> [st EXCEPT !.duration_max = IF d > @ THEN d ELSE @],
                me |-> [me EXCEPT !.pc = "duration_sum"]]
          [] me.pc = "duration_sum" ->
               [st |-> [st EXCEPT !.duration_sum = @ + d],
                me |-> [me EXCEPT !.pc = "histogram"]]
          [] me.pc = "histogram" ->
               [st |-> [st EXCEPT !.histogram = @ + 1],
                me |-> [me EXCEPT !.pc = "get_event_name"]]

\* A source on CPU c creates a record and calls emit_event with it.
CpuNew ==
    \E c \in CPUs, event_id \in EventIds, name_offset \in NameOffsets,
       duration_ns \in CpuDurations :
        LET event == [TraceEvent_new(PROBE_TRACEPOINT, event_id, time_ns + 1) EXCEPT
                         !.cpu_id = c, !.name_offset = name_offset,
                         !.duration_ns = duration_ns]
        IN  /\ cpu[c].pc = "idle"
            /\ time_ns < MaxCpuEmit
            /\ time_ns' = time_ns + 1
            /\ cpu' = [cpu EXCEPT ![c] = [CpuIdle EXCEPT !.pc = "ringbuf_fd",
                                                         !.event = Some(event)]]
            /\ emitted' = Append(emitted, event)
            /\ delivered' = (event.timestamp_ns :> 0) @@ delivered
            /\ UNCHANGED <<MAP_REGISTRY, RINGBUF_FD, FALLBACK_EVENTS, NAME_TABLE,
                           EVENT_NAME_MAP, STATS_REGISTRY, evret, mutex>>
            /\ UNCHANGED <<guestVars, loadVars>>

\* Mutex::lock: the CPU spins until the lock is free.
CpuLock ==
    \E c \in CPUs :
        /\ cpu[c].pc \in LockingPcs
        /\ mutex[LockOf(cpu[c].pc)] = 0
        /\ mutex' = [mutex EXCEPT ![LockOf(cpu[c].pc)] = c]
        /\ UNCHANGED <<MAP_REGISTRY, RINGBUF_FD, FALLBACK_EVENTS, NAME_TABLE,
                       EVENT_NAME_MAP, STATS_REGISTRY, time_ns, delivered, evret,
                       cpu, emitted>>
        /\ UNCHANGED <<guestVars, loadVars>>

CpuLeave(c, r) ==
    /\ SetE(r.e)
    /\ cpu' = [cpu EXCEPT ![c] = r.me]
    /\ mutex' = [mutex EXCEPT ![LockOf(cpu[c].pc)] = 0]
    /\ UNCHANGED <<evret, emitted, guestVars, loadVars>>

\* The body of the critical section and the release of its lock.
CpuCritical ==
    \E c \in CPUs, push_ok \in BOOLEAN :
        /\ cpu[c].pc \in LockingPcs
        /\ mutex[LockOf(cpu[c].pc)] = c
        /\ CpuLeave(c, locked_step(E, cpu[c], push_ok))

CpuStore(c, id, r) ==
    /\ STATS_REGISTRY' = [STATS_REGISTRY EXCEPT ![id] = r.st]
    /\ cpu' = [cpu EXCEPT ![c] = r.me]
    /\ UNCHANGED <<MAP_REGISTRY, RINGBUF_FD, FALLBACK_EVENTS, NAME_TABLE,
                   EVENT_NAME_MAP, time_ns, delivered, evret, mutex, emitted>>
    /\ UNCHANGED <<guestVars, loadVars>>

CpuRecord ==
    \E c \in CPUs, cas_ok \in BOOLEAN :
        /\ cpu[c].pc \in RecordPcs
        /\ CpuStore(c, Unwrap(cpu[c].event).event_id,
                    record_step(STATS_REGISTRY[Unwrap(cpu[c].event).event_id],
                                cpu[c], cas_ok))

\* execute_attached_program: the program bound to the event name, if any, is
\* run with the record as context and its result is discarded.
CpuExec ==
    \E c \in CPUs :
        /\ cpu[c].pc = "execute_attached_program"
        /\ cpu' = [cpu EXCEPT ![c] = CpuIdle]
        /\ UNCHANGED <<MAP_REGISTRY, RINGBUF_FD, FALLBACK_EVENTS, NAME_TABLE,
                       EVENT_NAME_MAP, STATS_REGISTRY, time_ns, delivered, evret,
                       mutex, emitted>>
        /\ UNCHANGED <<guestVars, loadVars>>

\* register_event_name and init_ringbuf_with_size run under the locks of the
\* state they change.
CpuRegisterEventName == mutex["NAME_TABLE"] = 0 /\ RegisterEventName

CpuInitRingbuf ==
    /\ mutex["MAP_REGISTRY"] = 0
    /\ mutex["RINGBUF_FD"] = 0
    /\ Len(MAP_REGISTRY) < MaxCpuMaps
    /\ InitRingbufWithSize

InitCpu == InitGuestWith({"aarch64"}, OrigWords) /\ InitEvents /\ InitLoader

NextCpu ==
    \/ CpuRegisterEventName
    \/ CpuInitRingbuf
    \/ CpuNew
    \/ CpuLock
    \/ CpuCritical
    \/ CpuRecord
    \/ CpuExec

SpecCpu == InitCpu /\ [][NextCpu]_vars

\* ---------------------------------------------------------------------------
\* The object-file loader and the program registry (runtime.rs)
\* ---------------------------------------------------------------------------
\* Bytecode is its bytes. A 32-bit value is patched in as its four
\* little-endian bytes.
to_le_bytes(n) ==
    <<n % 256, (n \div 256) % 256, (n \div 65536) % 256, (n \div 16777216) % 256>>

Insn(opcode) == <<opcode, 0, 0, 0, 0, 0, 0, 0>>
\* ld_imm64 (opcode 0x18, two slots) followed by exit (0x95).
LdMapExit == Insn(24) \o Insn(0) \o Insn(149)
\* The code sections of the objects loaded: empty, exit only, ld_imm64 + exit,
\* and ld_imm64 + a cut instruction (a length that is no multiple of 8).
Bytecodes == {<<>>, Insn(149), LdMapExit, Insn(24) \o Insn(0) \o <<149, 0, 0, 0>>}

\* The map descriptors of a maps section: name, BPF map type number (1 hash,
\* 2 array, 5 per-cpu hash) and the answer bpf_map_create gives to it.
ElfMapDefs ==
    {[name |-> "m1", map_type |-> 1, create_ok |-> TRUE],
     [name |-> "m2", map_type |-> 2, create_ok |-> TRUE],
     [name |-> "m2", map_type |-> 2, create_ok |-> FALSE],
     [name |-> "m3", map_type |-> 5, create_ok |-> TRUE]}
\* Relocation entries: the symbol they name ("" for none) and their offset.
Relocs == [sym : {"", "m1", "memcpy"}, offset : {0, 8, 16}]

SeqsUpTo(S, n) == UNION {[1..k -> S] : k \in 0..n}

\* What the loader is given: raw bytecode, or an object file reduced to what
\* parse_elf_with_maps reads from it (malformed: it fails a header, section
\* or symbol-table check).
Objects ==
    [format : {"raw"}, code : Bytecodes, maps : {<<>>}, rels : {<<>>}]
    \cup [format : {"malformed"}, code : Bytecodes,
          maps : SeqsUpTo(ElfMapDefs, 1), rels : {<<>>}]
    \cup [format : {"elf"}, code : Bytecodes,
          maps : SeqsUpTo(ElfMapDefs, MaxObjMaps), rels : SeqsUpTo(Relocs, 1)]

is_elf(data) == data.format # "raw"

\* patch_map_fd without the opcode check.
patch_map_fd_any_opcode(bytecode, offset, map_fd) ==
    IF offset + 16 > Len(bytecode)
    THEN [ok |-> FALSE, err |-> "RelocationFailed", bytecode |-> bytecode]
    ELSE [ok |-> TRUE, err |-> "",
          bytecode |-> [i \in 1..Len(bytecode) |->
                          IF i \in (offset + 5)..(offset + 8)
                          THEN to_le_bytes(map_fd)[i - offset - 4]
                          ELSE IF i \in (offset + 13)..(offset + 16) THEN 0
                          ELSE bytecode[i]]]

patch_map_fd(bytecode, offset, map_fd) ==
    IF offset + 16 > Len(bytecode)
    THEN [ok |-> FALSE, err |-> "RelocationFailed", bytecode |-> bytecode]
    ELSE IF bytecode[offset + 1] # 24
    THEN [ok |-> FALSE, err |-> "InvalidProgram", bytecode |-> bytecode]
    ELSE [ok |-> TRUE, err |-> "",
          bytecode |-> [i \in 1..Len(bytecode) |->
                          IF i \in (offset + 5)..(offset + 8)
                          THEN to_le_bytes(map_fd)[i - offset - 4]
                          ELSE IF i \in (offset + 13)..(offset + 16) THEN 0
                          ELSE bytecode[i]]]

\* The match on map_def.map_type.
MapTypeOf(n) ==
    CASE n = 1 -> Some("HashMap")
      [] n = 2 -> Some("Array")
      [] n = 9 -> Some("LruHash")
      [] n = 22 -> Some("Queue")
      [] OTHER -> None

\* for (_, fd) in &map_fds { let _ = destroy(*fd); }
RECURSIVE DestroyAll(_, _)
DestroyAll(reg, map_fds) ==
    IF map_fds = <<>> THEN reg
    ELSE DestroyAll(destroy(reg, Head(map_fds)[2]).reg, Tail(map_fds))

\* The map creation loop of parse_elf_with_maps, from the descriptor
\* map_defs[1] on. CreateOne is the loop body after maps::create answered c.
RECURSIVE CreateMaps(_, _, _, _)
CreateOne(reg, map_defs, map_fds, map_name_to_fd, c) ==
    IF c.ok
    THEN CreateMaps(c.reg, Tail(map_defs),
                    Append(map_fds, <<Head(map_defs).name, c.fd>>),
                    (Head(map_defs).name :> c.fd) @@ map_name_to_fd)
    ELSE [ok |-> FALSE, reg |-> DestroyAll(reg, map_fds),
          map_fds |-> map_fds, map_name_to_fd |-> map_name_to_fd]

CreateMaps(reg, map_defs, map_fds, map_name_to_fd) ==
    IF map_defs = <<>>
    THEN [ok |-> TRUE, reg |-> reg, map_fds |-> map_fds, map_name_to_fd |-> map_name_to_fd]
    ELSE IF MapTypeOf(Head(map_defs).map_type) = None
    THEN [ok |-> FALSE, reg |-> reg, map_fds |-> map_fds, map_name_to_fd |-> map_name_to_fd]
    ELSE CreateOne(reg, map_defs, map_fds, map_name_to_fd,
                   create(reg, [map_type |-> Unwrap(MapTypeOf(Head(map_defs).map_type)),
                                create_ok |-> Head(map_defs).create_ok]))

\* The relocation loop of parse_elf_with_maps. Patched is the loop body after
\* patch_map_fd answered p.
RECURSIVE ApplyRelocs(_, _, _)
Patched(p, relocs, map_name_to_fd) ==
    IF p.ok THEN ApplyRelocs(p.bytecode, Tail(relocs), map_name_to_fd) ELSE p

ApplyRelocs(bytecode, relocs, map_name_to_fd) ==
    IF relocs = <<>>
    THEN [ok |-> TRUE, err |-> "", bytecode |-> bytecode]
    ELSE IF Head(relocs).sym = "" \/ Head(relocs).sym \notin DOMAIN map_name_to_fd
    THEN ApplyRelocs(bytecode, Tail(relocs), map_name_to_fd)
    ELSE Patched(patch_map_fd(bytecode, Head(relocs).offset,
                              map_name_to_fd[Head(relocs).sym]),
                 relocs, map_name_to_fd)

\* parse_elf_with_maps after the relocation loop answered r, the maps being
\* those of c.
Relocated(c, r) ==
    IF ~r.ok
    THEN [ok |-> FALSE, err |-> r.err, reg |-> c.reg, bytecode |-> <<>>, map_fds |-> <<>>]
    ELSE [ok |-> TRUE, err |-> "", reg |-> c.reg, bytecode |-> r.bytecode,
          map_fds |-> c.map_fds]

\* parse_elf_with_maps after the map creation loop answered c.
MapsCreated(elf_data, c) ==
    IF ~c.ok
    THEN [ok |-> FALSE, err |-> "MapCreationFailed", reg |-> c.reg,
          bytecode |-> <<>>, map_fds |-> <<>>]
    ELSE Relocated(c, ApplyRelocs(elf_data.code, elf_data.rels, c.map_name_to_fd))

parse_elf_with_maps(reg, elf_data) ==
    IF elf_data.format = "malformed"
    THEN [ok |-> FALSE, err |-> "ElfParseError", reg |-> reg,
          bytecode |-> <<>>, map_fds |-> <<>>]
    ELSE IF elf_data.maps = <<>>
    THEN [ok |-> TRUE, err |-> "", reg |-> reg,
          bytecode |-> elf_data.code, map_fds |-> <<>>]
    ELSE MapsCreated(elf_data, CreateMaps(reg, elf_data.maps, <<>>, <<>>))

\* EbpfProgram::new after the parse answered r: the final validation.
Validated(r) ==
    IF ~r.ok
    THEN [ok |-> FALSE, err |-> r.err, reg |-> r.reg, program |-> None]
    ELSE IF r.bytecode = <<>> \/ Len(r.bytecode) % 8 # 0
    THEN [ok |-> FALSE, err |-> "InvalidProgram", reg |-> r.reg, program |-> None]
    ELSE [ok |-> TRUE, err |-> "", reg |-> r.reg,
          program |-> Some([bytecode |-> r.bytecode, map_fds |-> r.map_fds])]

\* EbpfProgram::new
EbpfProgram_new(reg, data) ==
    Validated(IF is_elf(data)
              THEN parse_elf_with_maps(reg, data)
              ELSE [ok |-> TRUE, err |-> "", reg |-> reg,
                    bytecode |-> data.code, map_fds |-> <<>>])

\* The lowest free slot of a registry, or the slot after its last.
FreeSlot(slots) ==
    IF \E i \in DOMAIN slots : slots[i] = None
    THEN CHOOSE i \in DOMAIN slots : slots[i] = None /\ \A j \in 1..(i - 1) : slots[j] # None
    ELSE Len(slots) + 1

\* The shared_maps of the programs in the registry, by their ids.
RegistryArcs(progs) == {Unwrap(progs[i]).arc : i \in {j \in DOMAIN progs : IsSome(progs[j])}}

\* Arc::new: the SharedMapFds of a new program is one no handle refers to yet.
\* Its id is the least one free.
FreshArc(progs, cl) ==
    CHOOSE a \in 0..(Len(progs) + Cardinality(DOMAIN cl)) :
        /\ a \notin RegistryArcs(progs) \cup DOMAIN cl
        /\ \A b \in 0..(a - 1) : b \in RegistryArcs(progs) \cup DOMAIN cl

\* load_program after EbpfProgram::new answered n.
Registered(progs, cl, n) ==
    IF ~n.ok
    THEN [ok |-> FALSE, err |-> n.err, reg |-> n.reg, progs |-> progs, id |-> 0]
    ELSE [ok |-> TRUE, err |-> "", reg |-> n.reg,
          progs |-> [i \in 1..(IF FreeSlot(progs) > Len(progs) THEN Len(progs) + 1
                               ELSE Len(progs)) |->
                        IF i = FreeSlot(progs)
                        THEN Some([bytecode |-> Unwrap(n.program).bytecode,
                                   map_fds |-> Unwrap(n.program).map_fds,
                                   arc |-> FreshArc(progs, cl)])
                        ELSE progs[i]],
          id |-> FreeSlot(progs) - 1]

load_program(reg, progs, cl, bytecode) ==
    Registered(progs, cl, EbpfProgram_new(reg, bytecode))

\* unload_program that takes the registry for the only owner of the maps.
unload_program_sole_owner(reg, progs, cl, prog_id) ==
    IF prog_id + 1 \notin DOMAIN progs \/ progs[prog_id + 1] = None
    THEN [ok |-> FALSE, err |-> "NotFound", reg |-> reg, progs |-> progs, id |-> prog_id]
    ELSE [ok |-> TRUE, err |-> "",
          reg |-> DestroyAll(reg, Unwrap(progs[prog_id + 1]).map_fds),
          progs |-> [progs EXCEPT ![prog_id + 1] = None], id |-> prog_id]

\* unload_program: emptying the slot drops the registry's handle; the
\* SharedMapFds is dropped with it, which destroys the maps, when no clone of
\* the handle is left.
unload_program(reg, progs, cl, prog_id) ==
    IF prog_id + 1 \notin DOMAIN progs \/ progs[prog_id + 1] = None
    THEN [ok |-> FALSE, err |-> "NotFound", reg |-> reg, progs |-> progs, id |-> prog_id]
    ELSE [ok |-> TRUE, err |-> "",
          reg |-> IF Unwrap(progs[prog_id + 1]).arc \in DOMAIN cl
                  THEN reg
                  ELSE DestroyAll(reg, Unwrap(progs[prog_id + 1]).map_fds),
          progs |-> [progs EXCEPT ![prog_id + 1] = None], id |-> prog_id]

\* get_program: a clone of the handle in the slot, or the handles unchanged.
get_program(progs, cl, prog_id) ==
    IF prog_id + 1 \notin DOMAIN progs \/ progs[prog_id + 1] = None
    THEN cl
    ELSE LET p == Unwrap(progs[prog_id + 1])
         IN  IF p.arc \in DOMAIN cl
             THEN [cl EXCEPT ![p.arc].n = @ + 1]
             ELSE (p.arc :> [map_fds |-> p.map_fds, n |-> 1]) @@ cl

\* Drop of a cloned handle (the end of a run_program, or of a caller's use
\* of get_program): the last handle's drop runs SharedMapFds::drop.
drop_program(reg, progs, cl, arc) ==
    IF cl[arc].n > 1
    THEN [reg |-> reg, clones |-> [cl EXCEPT ![arc].n = @ - 1]]
    ELSE [reg |-> IF arc \in RegistryArcs(progs) THEN reg
                  ELSE DestroyAll(reg, cl[arc].map_fds),
          clones |-> Remove(cl, arc)]

\* The loader state after an operation answered r.
SetL(op, r) ==
    /\ MAP_REGISTRY' = r.reg
    /\ PROGRAM_REGISTRY' = r.progs
    /\ loadret' = [op |-> op, ok |-> r.ok, err |-> r.err,
                   before |-> LiveMaps(MAP_REGISTRY), id |-> r.id]
    /\ UNCHANGED <<ATTACHMENTS, attret, hostVars>>

Loaded == {i \in DOMAIN PROGRAM_REGISTRY : IsSome(PROGRAM_REGISTRY[i])}

LoadProgramOf(O) ==
    \E data \in O :
        /\ Cardinality(Loaded) < MaxLoaded
        /\ Cardinality(LiveMaps(MAP_REGISTRY)) + Len(data.maps) <= MaxMapSlots
        /\ SetL("load_program", load_program(MAP_REGISTRY, PROGRAM_REGISTRY, clones, data))
        /\ UNCHANGED <<clones, guestVars, eventVars>>

LoadProgram == LoadProgramOf(Objects)

UnloadProgram ==
    \E prog_id \in 0..MaxLoaded :
        /\ SetL("unload_program",
                unload_program(MAP_REGISTRY, PROGRAM_REGISTRY, clones, prog_id))
        /\ UNCHANGED <<clones, guestVars, eventVars>>

\* get_program by a caller that keeps the clone; run_program is this
\* followed, when the run ends, by DropProgram.
GetProgram ==
    \E prog_id \in 0..MaxLoaded :
        /\ Cardinality(DOMAIN clones) < MaxClones
        /\ \A a \in DOMAIN clones : clones[a].n < MaxClones
        /\ clones' = get_program(PROGRAM_REGISTRY, clones, prog_id)
        /\ loadret' = [op |-> "get_program", ok |-> clones' # clones, err |-> "",
                       before |-> LiveMaps(MAP_REGISTRY), id |-> prog_id]
        /\ UNCHANGED <<MAP_REGISTRY, PROGRAM_REGISTRY, ATTACHMENTS, attret, hostVars, guestVars,
                       eventVars>>

DropProgram ==
    \E arc \in DOMAIN clones :
        LET r == drop_program(MAP_REGISTRY, PROGRAM_REGISTRY, clones, arc)
        IN  /\ MAP_REGISTRY' = r.reg
            /\ clones' = r.clones
            /\ loadret' = [op |-> "drop", ok |-> TRUE, err |-> "",
                           before |-> LiveMaps(MAP_REGISTRY), id |-> arc]
            /\ UNCHANGED <<PROGRAM_REGISTRY, ATTACHMENTS, attret, hostVars, guestVars, eventVars>>

\* maps::destroy called directly.
Destroyed(map_id, r) ==
    [ok |-> r.ok, err |-> "", reg |-> r.reg, progs |-> PROGRAM_REGISTRY, id |-> map_id]

MapsDestroy ==
    \E map_id \in 0..MaxMapSlots :
        /\ SetL("destroy", Destroyed(map_id, destroy(MAP_REGISTRY, map_id)))
        /\ UNCHANGED <<clones, guestVars, eventVars>>

InitLoad == InitGuestWith({"aarch64"}, OrigWords) /\ InitEvents /\ InitLoader

NextLoad ==
    \/ LoadProgram
    \/ UnloadProgram
    \/ MapsDestroy

SpecLoad == InitLoad /\ [][NextLoad]_vars

\* ---------------------------------------------------------------------------
\* Program handles: programs with maps loaded, cloned out of the registry,
\* unloaded, and the clones dropped, in any order.
\* ---------------------------------------------------------------------------
HandleObjects ==
    [format : {"elf"}, code : {LdMapExit},
     maps : SeqsUpTo({d \in ElfMapDefs : d.map_type \in {1, 2}}, MaxObjMaps), rels : {<<>>}]

NextHandle ==
    \/ LoadProgramOf(HandleObjects)
    \/ UnloadProgram
    \/ GetProgram
    \/ DropProgram

SpecHandle == InitLoad /\ [][NextHandle]_vars

\* ---------------------------------------------------------------------------
\* Hash maps through maps::create, update_elem, delete_elem and destroy
\* (maps.rs). The map contents are kept by the map library; a hash map is a
\* function from the keys present to their values, with at most MaxEntries
\* keys.
\* ---------------------------------------------------------------------------
BpfErrors == {"NotFound", "NoSpace", "InvalidArgument", "NotSupported", "TryAgain", "TooBig"}

\* impl From<BpfError> for Error
Error_from(e) ==
    CASE e = "NotFound" -> "NotFound"
      [] e = "NoSpace" -> "NoSpace"
      [] e = "InvalidArgument" -> "InvalidArgument"
      [] e = "NotSupported" -> "NotSupported"
      [] e = "TryAgain" -> "InvalidArgument"
      [] e = "TooBig" -> "InvalidArgument"

HashKeys == 1..3
HashValues == 1..2

\* What the map library may answer to the delete of a key that is absent.
DeleteAnswers == {"Ok"} \cup BpfErrors

MOk(reg) == [reg |-> reg, ok |-> TRUE, err |-> ""]
MErr(reg, e) == [reg |-> reg, ok |-> FALSE, err |-> Error_from(e)]

MapData(reg, map_id) == Unwrap(reg[map_id + 1]).data

\* get_unified_map_from_fd with the hash map's update_elem (flags = 0).
update_elem(reg, map_id, key, value) ==
    IF ~IsLive(reg, map_id)
    THEN MErr(reg, "NotFound")
    ELSE IF key \notin DOMAIN MapData(reg, map_id)
            /\ Cardinality(DOMAIN MapData(reg, map_id)) >= MaxEntries
    THEN MErr(reg, "NoSpace")
    ELSE MOk([reg EXCEPT ![map_id + 1] =
                 Some([Unwrap(@) EXCEPT !.data = (key :> value) @@ @])])

\* get_unified_map_from_fd with the hash map's delete_elem. absent is the
\* answer of the map library when the key is not in the map.
delete_elem(reg, map_id, key, absent) ==
    IF ~IsLive(reg, map_id)
    THEN MErr(reg, "NotFound")
    ELSE IF key \notin DOMAIN MapData(reg, map_id)
    THEN IF absent = "Ok" THEN MOk(reg) ELSE MErr(reg, absent)
    ELSE MOk([reg EXCEPT ![map_id + 1] = Some([Unwrap(@) EXCEPT !.data = Remove(@, key)])])

\* The state after a map operation on map_id answered r.
SetM(op, map_id, key, r) ==
    /\ MAP_REGISTRY' = r.reg
    /\ loadret' = [op |-> op, ok |-> r.ok, err |-> r.err,
                   before |-> LiveMaps(MAP_REGISTRY), id |-> map_id, key |-> key]
    /\ UNCHANGED <<PROGRAM_REGISTRY, clones, ATTACHMENTS, attret, hostVars>>
    /\ UNCHANGED <<guestVars, eventVars>>

Created(r) == SetM("create", r.fd, 0, [reg |-> r.reg, ok |-> r.ok, err |-> ""])

MapsCreate ==
    \E create_ok \in BOOLEAN :
        /\ Cardinality(LiveMaps(MAP_REGISTRY)) < MaxMapSlots
        /\ Created(create(MAP_REGISTRY, [map_type |-> "HashMap", create_ok |-> create_ok]))

MapsUpdateElem ==
    \E map_id \in 0..MaxMapSlots, key \in HashKeys, value \in HashValues :
        SetM("update_elem", map_id, key, update_elem(MAP_REGISTRY, map_id, key, value))

MapsDeleteElem ==
    \E map_id \in 0..MaxMapSlots, key \in HashKeys, absent \in DeleteAnswers :
        SetM("delete_elem", map_id, key, delete_elem(MAP_REGISTRY, map_id, key, absent))

NextMaps ==
    \/ MapsCreate
    \/ MapsUpdateElem
    \/ MapsDeleteElem
    \/ MapsDestroy

SpecMaps == InitLoad /\ [][NextMaps]_vars

\* ---------------------------------------------------------------------------
\* Programs on several CPUs calling the map-lookup helper (helpers.rs). The
\* helper copies the value found into the one static LOOKUP_BUFFER under its
\* mutex and returns the buffer's address; the program reads the value through
\* that address later, as a step of its own, without the mutex.
\* ---------------------------------------------------------------------------
\* maps::lookup_elem: the value under the key, None when the map or the key
\* is absent.
lookup_elem(reg, map_id, key) ==
    IF ~IsLive(reg, map_id)
    THEN None
    ELSE IF key \notin DOMAIN MapData(reg, map_id)
    THEN None
    ELSE Some(MapData(reg, map_id)[key])

\* bpf_map_lookup_elem: the buffer afterwards and r0, the address of the
\* buffer, or None for the null pointer.
bpf_map_lookup_elem(reg, buffer, map_fd, key) ==
    IF ~IsLive(reg, map_fd)
    THEN [buffer |-> buffer, r0 |-> None]
    ELSE IF IsSome(lookup_elem(reg, map_fd, key))
    THEN [buffer |-> Unwrap(lookup_elem(reg, map_fd, key)), r0 |-> Some("LOOKUP_BUFFER")]
    ELSE [buffer |-> buffer, r0 |-> None]

LookupRet(op, c, map_id, key, value) ==
    [op |-> op, ok |-> TRUE, err |-> "", before |-> LiveMaps(MAP_REGISTRY),
     id |-> map_id, key |-> key, cpu |-> c, value |-> value]

\* The program on CPU c calls the helper. With a pointer in r0 it goes on to
\* read through it; with a null pointer it exits. loc keeps the key and the value that was
\* stored under it when the helper looked it up.
HelperLookup ==
    \E c \in CPUs, map_fd \in 0..MaxMapSlots, key \in HashKeys :
        LET r == bpf_map_lookup_elem(MAP_REGISTRY, LOOKUP_BUFFER, map_fd, key)
        IN  /\ thr[c].pc = "idle"
            /\ LOOKUP_BUFFER' = r.buffer
            /\ thr' = [thr EXCEPT ![c] =
                           IF r.r0 = None THEN ThrIdle
                           ELSE [pc |-> "read",
                                 loc |-> Some(<<map_fd, key, r.buffer>>)]]
            /\ loadret' = LookupRet("bpf_map_lookup_elem", c, map_fd, key, r.r0)
            /\ UNCHANGED <<PROGRAM_REGISTRY, clones, ATTACHMENTS, attret>>
            /\ UNCHANGED <<KPROBE_REGISTRY, text, points, hret, slotVars>>
            /\ UNCHANGED <<guestVars, mapVars, eventVars>>

\* The program on CPU c loads the value through the pointer the helper returned.
ProgramRead ==
    \E c \in CPUs :
        /\ thr[c].pc = "read"
        /\ thr' = [thr EXCEPT ![c] = ThrIdle]
        /\ loadret' = LookupRet("read", c, Unwrap(thr[c].loc)[1], Unwrap(thr[c].loc)[2],
                                LOOKUP_BUFFER)
        /\ UNCHANGED <<PROGRAM_REGISTRY, clones, ATTACHMENTS, attret, LOOKUP_BUFFER>>
        /\ UNCHANGED <<KPROBE_REGISTRY, text, points, hret, slotVars>>
        /\ UNCHANGED <<guestVars, mapVars, eventVars>>

NextLookup ==
    \/ MapsCreate
    \/ MapsUpdateElem
    \/ HelperLookup
    \/ ProgramRead

SpecLookup == InitLoad /\ [][NextLookup]_vars

\* ---------------------------------------------------------------------------
\* Objects whose probe section calls a function of their .text section
\* (compiler-emitted memset): parse_elf_with_maps reads the probe section, the
\* maps section and the probe section's relocations, and nothing of .text.
\* ---------------------------------------------------------------------------
\* call (opcode 0x85) with src_reg 1, a call into the object; the
\* displacement is -1 until the call is relocated.
CallInsn == <<133, 16, 0, 0, 255, 255, 255, 255>>
\* The probe section: ld_imm64 of a map, the call, exit.
CallCode == Insn(24) \o Insn(0) \o CallInsn \o Insn(149)
\* The byte offset of the call in the probe section.
CallOffset == Len(Insn(24) \o Insn(0))
\* .text sections: a function of one or two instructions.
TextSections == {Insn(149), Insn(183) \o Insn(149)}

CallObjects ==
    [format : {"elf"}, code : {CallCode},
     maps : SeqsUpTo({d \in ElfMapDefs : d.map_type \in {1, 2}}, MaxObjMaps),
     rels : {<<[sym |-> "m1", offset |-> 0], [sym |-> "memset", offset |-> CallOffset]>>},
     text : TextSections]

NextCalls ==
    \/ LoadProgramOf(CallObjects)
    \/ UnloadProgram
    \/ MapsDestroy

SpecCalls == InitLoad /\ [][NextCalls]_vars

\* ---------------------------------------------------------------------------
\* Triggers on VM-specific and wildcard probes with entry and return
\* bindings. The handlers look probes up by key whatever their mode, so the
\* probes here are Stage2Fault ones.
\* ---------------------------------------------------------------------------
TrigBindings == ProgIds \X BOOLEAN

InitTrigger == InitGuestWith({"aarch64"}, OrigWords) /\ InitEvents /\ InitLoader

NextTrigger ==
    \/ Register(Keys, TrigBindings, {"Stage2Fault"})
    \/ Attach(Keys, TrigBindings, {"Stage2Fault"})
    \/ Disable(Keys)
    \/ Detach(Keys)
    \/ HandleGuestBrk(Keys, MaxTrigTraps)
    \/ HandleStage2ExecFault(Keys, MaxTrigTraps)

SpecTrigger == InitTrigger /\ [][NextTrigger]_vars

\* ---------------------------------------------------------------------------
\* The attachment registry (attach.rs)
\* ---------------------------------------------------------------------------
IsLoaded(progs, prog_id) == prog_id + 1 \in DOMAIN progs /\ IsSome(progs[prog_id + 1])

\* attach::attach
attach_attach(progs, atts, tracepoint, prog_id, prog_name) ==
    IF ~IsLoaded(progs, prog_id)
    THEN [atts |-> atts, ok |-> FALSE, err |-> "ProgramNotFound"]
    ELSE IF tracepoint \in DOMAIN atts
    THEN [atts |-> atts, ok |-> FALSE, err |-> "AlreadyAttached"]
    ELSE [atts |-> (tracepoint :> [prog_id |-> prog_id, prog_name |-> prog_name]) @@ atts,
          ok |-> TRUE, err |-> ""]

\* attach::detach
attach_detach(atts, tracepoint) ==
    IF tracepoint \in DOMAIN atts
    THEN [atts |-> Remove(atts, tracepoint), ok |-> TRUE, err |-> ""]
    ELSE [atts |-> atts, ok |-> FALSE, err |-> "NotAttached"]

AttachProgram ==
    \E tracepoint \in EventNames, prog_id \in 0..MaxLoaded :
        LET r == attach_attach(PROGRAM_REGISTRY, ATTACHMENTS, tracepoint, prog_id, "prog")
        IN  /\ ATTACHMENTS' = r.atts
            /\ attret' = [op |-> "attach", name |-> tracepoint, ok |-> r.ok, err |-> r.err,
                          live |-> tracepoint \in DOMAIN ATTACHMENTS,
                          loaded |-> IsLoaded(PROGRAM_REGISTRY, prog_id)]
            /\ UNCHANGED <<PROGRAM_REGISTRY, clones, loadret, hostVars, guestVars, mapVars,
                           eventVars>>

DetachProgram ==
    \E tracepoint \in EventNames :
        LET r == attach_detach(ATTACHMENTS, tracepoint)
        IN  /\ ATTACHMENTS' = r.atts
            /\ attret' = [op |-> "detach", name |-> tracepoint, ok |-> r.ok, err |-> r.err,
                          live |-> tracepoint \in DOMAIN ATTACHMENTS, loaded |-> FALSE]
            /\ UNCHANGED <<PROGRAM_REGISTRY, clones, loadret, hostVars, guestVars, mapVars,
                           eventVars>>

\* The programs attached: raw bytecode, valid or not.
AttachObjects == [format : {"raw"}, code : Bytecodes, maps : {<<>>}, rels : {<<>>}]

NextAttach ==
    \/ LoadProgramOf(AttachObjects)
    \/ UnloadProgram
    \/ AttachProgram
    \/ DetachProgram

SpecAttach == InitLoad /\ [][NextAttach]_vars

\* ---------------------------------------------------------------------------
\* attach::attach in its two halves: the program-existence check takes and
\* releases PROGRAM_REGISTRY (inside get_program), the insertion takes
\* ATTACHMENTS; loads and unloads run between them on other CPUs.
\* ---------------------------------------------------------------------------
\* The part of attach that holds ATTACHMENTS.
attach_insert(atts, tracepoint, prog_id, prog_name) ==
    IF tracepoint \in DOMAIN atts
    THEN [atts |-> atts, ok |-> FALSE, err |-> "AlreadyAttached"]
    ELSE [atts |-> (tracepoint :> [prog_id |-> prog_id, prog_name |-> prog_name]) @@ atts,
          ok |-> TRUE, err |-> ""]

AttachCheck ==
    \E c \in CPUs, tracepoint \in EventNames, prog_id \in 0..MaxLoaded :
        /\ thr[c].pc = "idle"
        /\ thr' = [thr EXCEPT ![c] = IF IsLoaded(PROGRAM_REGISTRY, prog_id)
                                      THEN [pc |-> "insert", loc |-> <<tracepoint, prog_id>>]
                                      ELSE ThrIdle]
        /\ attret' = [op |-> "attach_check", name |-> tracepoint,
                      ok |-> IsLoaded(PROGRAM_REGISTRY, prog_id),
                      err |-> IF IsLoaded(PROGRAM_REGISTRY, prog_id) THEN ""
                              ELSE "ProgramNotFound",
                      live |-> tracepoint \in DOMAIN ATTACHMENTS,
                      loaded |-> IsLoaded(PROGRAM_REGISTRY, prog_id)]
        /\ UNCHANGED <<PROGRAM_REGISTRY, clones, loadret, ATTACHMENTS>>
        /\ UNCHANGED <<KPROBE_REGISTRY, text, points, hret, slotVars, LOOKUP_BUFFER>>
        /\ UNCHANGED <<guestVars, mapVars, eventVars>>

Inserted(c, r) ==
    /\ ATTACHMENTS' = r.atts
    /\ thr' = [thr EXCEPT ![c] = ThrIdle]
    /\ attret' = [op |-> "attach", name |-> thr[c].loc[1], ok |-> r.ok, err |-> r.err,
                  live |-> thr[c].loc[1] \in DOMAIN ATTACHMENTS,
                  loaded |-> IsLoaded(PROGRAM_REGISTRY, thr[c].loc[2])]

AttachInsert ==
    \E c \in CPUs :
        /\ thr[c].pc = "insert"
        /\ Inserted(c, attach_insert(ATTACHMENTS, thr[c].loc[1], thr[c].loc[2], "prog"))
        /\ UNCHANGED <<PROGRAM_REGISTRY, clones, loadret>>
        /\ UNCHANGED <<KPROBE_REGISTRY, text, points, hret, slotVars, LOOKUP_BUFFER>>
        /\ UNCHANGED <<guestVars, mapVars, eventVars>>

NextAttachRace ==
    \/ LoadProgramOf(AttachObjects)
    \/ UnloadProgram
    \/ AttachCheck
    \/ AttachInsert
    \/ DetachProgram

SpecAttachRace == InitLoad /\ [][NextAttachRace]_vars

\* ---------------------------------------------------------------------------
\* The instruction-slot pool (insn_slot.rs). SLOT_BITMAP is a u64; it is kept
\* as the set of the positions of its bits that are set.
\* ---------------------------------------------------------------------------
\* The address the linker gives to INSN_SLOTS.
slots_base == 4096
slots_end == slots_base + NUM_SLOTS * SLOT_SIZE
is_slot_address(addr) == addr >= slots_base /\ addr < slots_end
free_count(bitmap) == NUM_SLOTS - Cardinality(bitmap)
SlotAddr(i) == slots_base + i * SLOT_SIZE

\* alloc_slot that does not set the bit of the slot it hands out.
alloc_slot_no_mark(bitmap) ==
    IF \E i \in 0..(Min(NUM_SLOTS, 64) - 1) : i \notin bitmap
    THEN [bitmap |-> bitmap,
          addr |-> Some(SlotAddr(CHOOSE i \in 0..(Min(NUM_SLOTS, 64) - 1) :
                                    i \notin bitmap /\ \A j \in 0..(i - 1) : j \in bitmap))]
    ELSE [bitmap |-> bitmap, addr |-> None]

alloc_slot(bitmap) ==
    IF \E i \in 0..(Min(NUM_SLOTS, 64) - 1) : i \notin bitmap
    THEN LET i == CHOOSE i \in 0..(Min(NUM_SLOTS, 64) - 1) :
                      i \notin bitmap /\ \A j \in 0..(i - 1) : j \in bitmap
         IN  [bitmap |-> bitmap \cup {i}, addr |-> Some(SlotAddr(i))]
    ELSE [bitmap |-> bitmap, addr |-> None]

free_slot(bitmap, addr) ==
    IF addr < slots_base \/ addr >= slots_end
    THEN bitmap
    ELSE bitmap \ {(addr - slots_base) \div SLOT_SIZE}


\* AxKprobeOps::alloc_kernel_exec_memory and free_kernel_exec_memory: the slot
\* pool lies in mapped text, so making the slot writable succeeds. A null
\* pointer is the address 0.
alloc_kernel_exec_memory(bitmap) ==
    LET r == alloc_slot(bitmap)
    IN  [bitmap |-> r.bitmap, ptr |-> IF IsSome(r.addr) THEN Unwrap(r.addr) ELSE 0]

free_kernel_exec_memory(bitmap, ptr) ==
    IF ptr # 0 THEN free_slot(bitmap, ptr) ELSE bitmap

\* The probe library keeps one instruction slot for each probe point: it asks
\* alloc_kernel_exec_memory for the slot when the point is created and hands
\* it to free_kernel_exec_memory when the point is removed. i maps the probe
\* addresses to their slots, pts is the set of probe points after the
\* operation; one operation creates or removes at most one point.
SyncSlots(bitmap, i, pts) ==
    IF \E a \in DOMAIN i : a \notin pts
    THEN LET a == CHOOSE a \in DOMAIN i : a \notin pts
         IN  [bitmap |-> free_kernel_exec_memory(bitmap, i[a]), insn |-> Remove(i, a)]
    ELSE IF \E a \in pts : a \notin DOMAIN i
    THEN LET a == CHOOSE a \in pts : a \notin DOMAIN i
         IN  [bitmap |-> alloc_kernel_exec_memory(bitmap).bitmap,
              insn |-> (a :> alloc_kernel_exec_memory(bitmap).ptr) @@ i]
    ELSE [bitmap |-> bitmap, insn |-> i]

\* ---------------------------------------------------------------------------
\* The host-probe manager (probe/hprobe/manager.rs)
\* ---------------------------------------------------------------------------
\* symbols::lookup_addr over the symbols of the model: two names of one
\* address, a name of another address, and a name the table does not hold.
HostSymbols == {"f", "f_alias", "g", "nosym"}
HostAddrs == {1, 2}
HostProgIds == 1..MaxHostProg

lookup_addr(name) ==
    CASE name = "f" -> Some(1)
      [] name = "f_alias" -> Some(1)
      [] name = "g" -> Some(2)
      [] OTHER -> None

\* The breakpoint the probe library writes.
HOST_BRK == <<0, 0, 32, 212>>

\* The manager and the text as one value, so that operations compose.
H == [probes |-> KPROBE_REGISTRY.probes, name_map |-> KPROBE_REGISTRY.name_map,
      text |-> text, points |-> points]

HOk(h) == [h |-> h, ok |-> TRUE, err |-> ""]
HErr(h, e) == [h |-> h, ok |-> FALSE, err |-> e]

\* The probe library, an external collaborator: the probes of one address
\* share one probe point, which saves the original instruction and writes the
\* breakpoint when its first probe is registered and restores the instruction
\* when its last probe is unregistered. The text pages of the symbols are
\* mapped, so the scoped writable primitive succeeds.
kprobe_register(h, addr) ==
    IF addr \in DOMAIN h.points
    THEN [h EXCEPT !.points[addr].n = @ + 1]
    ELSE [h EXCEPT !.points = (addr :> [saved |-> h.text[addr], n |-> 1]) @@ @,
                   !.text[addr] = HOST_BRK]

kprobe_unregister(h, addr) ==
    IF h.points[addr].n > 1
    THEN [h EXCEPT !.points[addr].n = @ - 1]
    ELSE [h EXCEPT !.points = Remove(@, addr),
                   !.text[addr] = h.points[addr].saved]

ProbeSlot_new(prog_id) ==
    [hits |-> 0, state |-> "Disabled", prog_id |-> prog_id, handle |-> None]

slot_ref(entry, is_ret) == IF is_ret THEN entry.ret_slot ELSE entry.entry_slot

SetSlot(h, addr, is_ret, slot) ==
    IF is_ret THEN [h EXCEPT !.probes[addr].ret_slot = slot]
    ELSE [h EXCEPT !.probes[addr].entry_slot = slot]

\* A registration that does not look at the slot it fills.
register_with_addr_overwrite(h, name, addr, prog_id, is_ret) ==
    IF name \in DOMAIN h.name_map /\ h.name_map[name] # addr
    THEN HErr(h, "kprobe symbol already registered at different address")
    ELSE IF addr \in DOMAIN h.probes /\ h.probes[addr].name # name
    THEN HErr(h, "kprobe already registered at this address")
    ELSE LET h1 == IF addr \in DOMAIN h.probes THEN h
                   ELSE [h EXCEPT !.probes = (addr :> [name |-> name, addr |-> addr,
                                                        entry_slot |-> None,
                                                        ret_slot |-> None]) @@ @]
         IN  HOk([SetSlot(h1, addr, is_ret, Some(ProbeSlot_new(prog_id))) EXCEPT
                     !.name_map = (name :> addr) @@ @])

register_with_addr(h, name, addr, prog_id, is_ret) ==
    IF name \in DOMAIN h.name_map /\ h.name_map[name] # addr
    THEN HErr(h, "kprobe symbol already registered at different address")
    ELSE IF addr \in DOMAIN h.probes /\ h.probes[addr].name # name
    THEN HErr(h, "kprobe already registered at this address")
    ELSE LET h1 == IF addr \in DOMAIN h.probes THEN h
                   ELSE [h EXCEPT !.probes = (addr :> [name |-> name, addr |-> addr,
                                                        entry_slot |-> None,
                                                        ret_slot |-> None]) @@ @]
         IN  IF IsSome(slot_ref(h1.probes[addr], is_ret))
             THEN HErr(h1, "kprobe already registered at this address")
             ELSE HOk([SetSlot(h1, addr, is_ret, Some(ProbeSlot_new(prog_id))) EXCEPT
                          !.name_map = (name :> addr) @@ @])

hprobe_register(h, name, prog_id, is_ret) ==
    IF lookup_addr(name) = None
    THEN HErr(h, "symbol not found")
    ELSE register_with_addr(h, name, Unwrap(lookup_addr(name)), prog_id, is_ret)

hprobe_enable(h, addr, is_ret) ==
    IF addr \notin DOMAIN h.probes \/ slot_ref(h.probes[addr], is_ret) = None
    THEN HErr(h, "kprobe not found")
    ELSE IF Unwrap(slot_ref(h.probes[addr], is_ret)).state = "Enabled"
    THEN HOk(h)
    ELSE HOk(SetSlot(kprobe_register(h, addr), addr, is_ret,
                     Some([Unwrap(slot_ref(h.probes[addr], is_ret)) EXCEPT
                              !.handle = Some(IF is_ret THEN "Kretprobe" ELSE "Kprobe"),
                              !.state = "Enabled"])))

\* A disable that forgets the probe of the library.
hprobe_disable_keep_handle(h, addr, is_ret) ==
    IF addr \notin DOMAIN h.probes \/ slot_ref(h.probes[addr], is_ret) = None
    THEN HErr(h, "kprobe not found")
    ELSE IF Unwrap(slot_ref(h.probes[addr], is_ret)).state = "Disabled"
    THEN HOk(h)
    ELSE HOk(SetSlot(h, addr, is_ret,
                     Some([Unwrap(slot_ref(h.probes[addr], is_ret)) EXCEPT
                              !.handle = None, !.state = "Disabled"])))

hprobe_disable(h, addr, is_ret) ==
    IF addr \notin DOMAIN h.probes \/ slot_ref(h.probes[addr], is_ret) = None
    THEN HErr(h, "kprobe not found")
    ELSE IF Unwrap(slot_ref(h.probes[addr], is_ret)).state = "Disabled"
    THEN HOk(h)
    ELSE HOk(SetSlot(IF IsSome(Unwrap(slot_ref(h.probes[addr], is_ret)).handle)
                     THEN kprobe_unregister(h, addr) ELSE h,
                     addr, is_ret,
                     Some([Unwrap(slot_ref(h.probes[addr], is_ret)) EXCEPT
                              !.handle = None, !.state = "Disabled"])))

\* unregister after its disable succeeded: the slot is present.
RemoveSlot(h, addr, is_ret) ==
    LET h1 == SetSlot(h, addr, is_ret, None)
    IN  IF h1.probes[addr].entry_slot = None /\ h1.probes[addr].ret_slot = None
        THEN [h1 EXCEPT !.probes = Remove(@, addr),
                        !.name_map = Remove(@, h.probes[addr].name)]
        ELSE h1

hprobe_unregister(h, addr, is_ret) ==
    IF ~hprobe_disable(h, addr, is_ret).ok
    THEN HErr(h, hprobe_disable(h, addr, is_ret).err)
    ELSE HOk(RemoveSlot(hprobe_disable(h, addr, is_ret).h, addr, is_ret))

\* An unregister_by_name that removes the entry slot only.
unregister_by_name_entry_only(h, name) ==
    IF name \notin DOMAIN h.name_map \/ h.name_map[name] \notin DOMAIN h.probes
    THEN HErr(h, "kprobe not found")
    ELSE IF IsSome(h.probes[h.name_map[name]].entry_slot)
    THEN hprobe_unregister(h, h.name_map[name], FALSE)
    ELSE HOk(h)

UnregisterRet(r, addr, has_ret) ==
    IF r.ok /\ has_ret THEN hprobe_unregister(r.h, addr, TRUE) ELSE r

unregister_by_name(h, name) ==
    IF name \notin DOMAIN h.name_map \/ h.name_map[name] \notin DOMAIN h.probes
    THEN HErr(h, "kprobe not found")
    ELSE UnregisterRet(IF IsSome(h.probes[h.name_map[name]].entry_slot)
                       THEN hprobe_unregister(h, h.name_map[name], FALSE)
                       ELSE HOk(h),
                       h.name_map[name], IsSome(h.probes[h.name_map[name]].ret_slot))

Attached(r, addr, is_ret) ==
    IF hprobe_enable(r.h, addr, is_ret).ok
    THEN hprobe_enable(r.h, addr, is_ret)
    ELSE HErr(hprobe_unregister(r.h, addr, is_ret).h, hprobe_enable(r.h, addr, is_ret).err)

hprobe_attach(h, name, prog_id, is_ret) ==
    IF ~hprobe_register(h, name, prog_id, is_ret).ok
    THEN hprobe_register(h, name, prog_id, is_ret)
    ELSE Attached(hprobe_register(h, name, prog_id, is_ret),
                  Unwrap(lookup_addr(name)), is_ret)

hprobe_detach(h, name) == unregister_by_name(h, name)

\* Whether the pair the operation addresses held both slots before it.
HadBoth(name, addr) ==
    LET a == IF name \in DOMAIN KPROBE_REGISTRY.name_map
             THEN KPROBE_REGISTRY.name_map[name] ELSE addr
    IN  /\ a \in DOMAIN KPROBE_REGISTRY.probes
        /\ IsSome(KPROBE_REGISTRY.probes[a].entry_slot)
        /\ IsSome(KPROBE_REGISTRY.probes[a].ret_slot)

SetH(r, op, name, addr, prog_id, is_ret) ==
    /\ KPROBE_REGISTRY' = [probes |-> r.h.probes, name_map |-> r.h.name_map]
    /\ text' = r.h.text
    /\ points' = r.h.points
    /\ hret' = [op |-> op, ok |-> r.ok, err |-> r.err, name |-> name, addr |-> addr,
                prog_id |-> prog_id, is_ret |-> is_ret, both |-> HadBoth(name, addr)]
    /\ SLOT_BITMAP' = SyncSlots(SLOT_BITMAP, insn, DOMAIN r.h.points).bitmap
    /\ insn' = SyncSlots(SLOT_BITMAP, insn, DOMAIN r.h.points).insn
    /\ UNCHANGED <<PROGRAM_REGISTRY, clones, loadret, ATTACHMENTS, attret, raceVars>>
    /\ UNCHANGED <<ORIGINAL_PC, sret, guestVars, mapVars, eventVars>>

HostRegister ==
    \E name \in HostSymbols, prog_id \in HostProgIds, is_ret \in BOOLEAN :
        SetH(hprobe_register(H, name, prog_id, is_ret), "register", name, 0, prog_id, is_ret)

HostEnable ==
    \E addr \in HostAddrs, is_ret \in BOOLEAN :
        SetH(hprobe_enable(H, addr, is_ret), "enable", "", addr, 0, is_ret)

HostDisable ==
    \E addr \in HostAddrs, is_ret \in BOOLEAN :
        SetH(hprobe_disable(H, addr, is_ret), "disable", "", addr, 0, is_ret)

HostUnregister ==
    \E addr \in HostAddrs, is_ret \in BOOLEAN :
        SetH(hprobe_unregister(H, addr, is_ret), "unregister", "", addr, 0, is_ret)

HostAttach ==
    \E name \in HostSymbols, prog_id \in HostProgIds, is_ret \in BOOLEAN :
        SetH(hprobe_attach(H, name, prog_id, is_ret), "attach", name, 0, prog_id, is_ret)

HostDetach ==
    \E name \in HostSymbols :
        SetH(hprobe_detach(H, name), "detach", name, 0, 0, FALSE)

InitHostSpec == InitGuestWith({"aarch64"}, OrigWords) /\ InitEvents /\ InitLoader

NextHost ==
    \/ HostRegister
    \/ HostEnable
    \/ HostDisable
    \/ HostUnregister
    \/ HostAttach
    \/ HostDetach

SpecHost == InitHostSpec /\ [][NextHost]_vars

\* The state after a slot-pool or trap operation.
SetS(bitmap, i, opc, r) ==
    /\ SLOT_BITMAP' = bitmap
    /\ insn' = i
    /\ ORIGINAL_PC' = opc
    /\ sret' = r

\* ---------------------------------------------------------------------------
\* The host-probe trap handlers (probe/hprobe/handler.rs) with probes attached
\* and detached around them
\* ---------------------------------------------------------------------------
MaxHostTraps == 2
KPROBES_BRK_IMM == 4
KPROBES_BRK_SS_IMM == 6
MAX_CPUS == 8

\* manager::lookup: whether a probe is registered at the address and, if so,
\* whether one of its slots is enabled.
hprobe_lookup(h, addr) ==
    IF addr \in DOMAIN h.probes
    THEN Some(\E is_ret \in BOOLEAN :
                  /\ IsSome(slot_ref(h.probes[addr], is_ret))
                  /\ Unwrap(slot_ref(h.probes[addr], is_ret)).state = "Enabled")
    ELSE None

HitSlot(slot) == IF IsSome(slot) THEN Some([Unwrap(slot) EXCEPT !.hits = @ + 1]) ELSE slot

record_break_hit(h, addr) ==
    IF addr \in DOMAIN h.probes
    THEN [h EXCEPT !.probes[addr].entry_slot = HitSlot(@),
                   !.probes[addr].ret_slot = HitSlot(@)]
    ELSE h

save_original_pc(opc, c, pc) == IF c < MAX_CPUS THEN [opc EXCEPT ![c] = pc] ELSE opc
get_original_pc(opc, c) == IF c < MAX_CPUS THEN opc[c] ELSE 0

\* The probe address is not looked at: the first slot of the pool is the
\* answer whenever any slot is in use.
get_instruction_slot_for_probe(bitmap, i, probe_addr) ==
    IF free_count(bitmap) < NUM_SLOTS THEN slots_base ELSE 0

NotHandled(h, opc) == [h |-> h, opc |-> opc, handled |-> FALSE, new_pc |-> None]

\* The attached program runs on the trap frame between the hit and the saved
\* pc; no program is loaded here, and its failure is only logged.
handle_main_breakpoint(h, bitmap, i, opc, c, pc) ==
    IF hprobe_lookup(h, pc) = None
    THEN NotHandled(h, opc)
    ELSE IF ~Unwrap(hprobe_lookup(h, pc))
    THEN NotHandled(h, opc)
    ELSE [h |-> record_break_hit(h, pc),
          opc |-> save_original_pc(opc, c, pc),
          handled |-> TRUE,
          new_pc |-> IF get_instruction_slot_for_probe(bitmap, i, pc) # 0
                     THEN Some(get_instruction_slot_for_probe(bitmap, i, pc))
                     ELSE Some(pc + 4)]

saturating_sub(a, b) == IF a >= b THEN a - b ELSE 0

handle_single_step_complete(h, opc, c, pc) ==
    IF ~is_slot_address(saturating_sub(pc, 4))
    THEN NotHandled(h, opc)
    ELSE IF get_original_pc(opc, c) = 0
    THEN NotHandled(h, opc)
    ELSE [h |-> h, opc |-> opc, handled |-> TRUE,
          new_pc |-> Some(get_original_pc(opc, c) + 4)]

handle_breakpoint(h, bitmap, i, opc, c, pc, iss) ==
    IF iss = KPROBES_BRK_IMM
    THEN handle_main_breakpoint(h, bitmap, i, opc, c, pc)
    ELSE IF iss = KPROBES_BRK_SS_IMM
    THEN handle_single_step_complete(h, opc, c, pc)
    ELSE NotHandled(h, opc)

\* Where a breakpoint trap is taken: at a probe address, and at the word
\* after the instruction in one of the first slots of the pool.
TrapPcs == HostAddrs \cup {SlotAddr(n) + 4 : n \in 0..1}
BrkImms == {KPROBES_BRK_IMM, KPROBES_BRK_SS_IMM, 0}

Trapped(r, c, pc, iss) ==
    /\ KPROBE_REGISTRY' = [probes |-> r.h.probes, name_map |-> r.h.name_map]
    /\ SetS(SLOT_BITMAP, insn, r.opc,
            [op |-> IF iss = KPROBES_BRK_IMM THEN "main_breakpoint"
                    ELSE IF iss = KPROBES_BRK_SS_IMM THEN "single_step_complete"
                    ELSE "unknown",
             ok |-> r.handled, addr |-> None, cpu |-> c, pc |-> pc, new_pc |-> r.new_pc])

HandleBreakpoint ==
    \E c \in CPUs, pc \in TrapPcs, iss \in BrkImms :
        /\ nTraps < MaxHostTraps
        /\ nTraps' = nTraps + 1
        /\ Trapped(handle_breakpoint(H, SLOT_BITMAP, insn, ORIGINAL_PC, c, pc, iss), c, pc, iss)
        /\ UNCHANGED <<text, points, hret, raceVars>>
        /\ UNCHANGED <<PROGRAM_REGISTRY, clones, loadret, ATTACHMENTS, attret>>
        /\ UNCHANGED <<arch, probes, stale, staleOrder, mem, s2exec, mockFail, preWord,
                       absorbed, ret>>
        /\ UNCHANGED <<mapVars, eventVars>>

\* The probes attached around the traps: entry and return probes of one
\* program on the two probed functions.
TrapSymbols == {"f", "g"}

TrapAttach ==
    \E name \in TrapSymbols, is_ret \in BOOLEAN :
        SetH(hprobe_attach(H, name, 1, is_ret), "attach", name, 0, 1, is_ret)

TrapDetach ==
    \E name \in TrapSymbols :
        SetH(hprobe_detach(H, name), "detach", name, 0, 0, FALSE)

NextTrap ==
    \/ TrapAttach
    \/ TrapDetach
    \/ HandleBreakpoint

SpecTrap == InitHostSpec /\ [][NextTrap]_vars

\* ---------------------------------------------------------------------------
\* The spin mutexes. Every operation is the sequence of its lock
\* acquisitions and releases, in the order of the source, and of the entries
\* into functions a host probe may be planted on; a CPU runs one operation at
\* a time, one step at a time. A breakpoint trap is taken on the CPU that
\* executes the probed instruction, whatever that CPU holds, and its handler
\* runs on top of the interrupted operation.
\* ---------------------------------------------------------------------------
LockNames ==
    Locks \cup {"PROGRAM_REGISTRY", "KPROBE_REGISTRY", "GUEST_KPROBE_REGISTRY",
                "STALE_BRK_REGISTRY", "ATTACHMENTS", "LOOKUP_BUFFER"}

Acq(l) == <<"acq", l>>
Rel(l) == <<"rel", l>>
Enter(fn) == <<"enter", fn>>
Locked(l) == <<Acq(l), Rel(l)>>

\* The symbols of the model's table: g is maps::destroy, f a function of the
\* hypervisor that runs with no mutex of the framework held.
SymbolOf(fn) == IF fn = "maps::destroy" THEN "g" ELSE "f"

\* bpf_map_lookup_elem: get_map_sizes, maps::lookup_elem, then the buffer.
helper_lookup_locks == Locked("MAP_REGISTRY") \o Locked("MAP_REGISTRY") \o Locked("LOOKUP_BUFFER")

\* runtime::run_program: get_program clones the program under the registry's
\* mutex; the program, which calls the lookup helper, runs on the clone.
run_program_locks == Locked("PROGRAM_REGISTRY") \o helper_lookup_locks

\* handle_main_breakpoint: lookup, record_hit and lookup_prog_id each take the
\* host-probe registry; then the program runs.
handle_main_breakpoint_locks ==
    Locked("KPROBE_REGISTRY") \o Locked("KPROBE_REGISTRY") \o Locked("KPROBE_REGISTRY")
    \o run_program_locks

\* unload_program of a program that owns a map and has no other handle:
\* emptying the slot drops the last handle, and SharedMapFds::drop calls
\* maps::destroy with the program registry still held.
unload_program_locks ==
    <<Acq("PROGRAM_REGISTRY"), Enter("maps::destroy"), Acq("MAP_REGISTRY"),
      Rel("MAP_REGISTRY"), Rel("PROGRAM_REGISTRY")>>

\* disable of an enabled BrkInject probe: remember_stale_brk runs under the
\* guest-probe registry and takes the stale registry twice.
disable_locks ==
    <<Acq("GUEST_KPROBE_REGISTRY")>> \o Locked("STALE_BRK_REGISTRY")
    \o Locked("STALE_BRK_REGISTRY") \o <<Rel("GUEST_KPROBE_REGISTRY")>>

consume_stale_brk_locks == Locked("STALE_BRK_REGISTRY")

\* emit_event with a ring buffer and an attached program.
emit_event_locks ==
    Locked("RINGBUF_FD") \o Locked("MAP_REGISTRY") \o Locked("FALLBACK_EVENTS")
    \o Locked("EVENT_NAME_MAP") \o Locked("STATS_REGISTRY") \o Locked("NAME_TABLE")
    \o Locked("ATTACHMENTS") \o run_program_locks

\* handle_guest_brk on an enabled probe: lookup_enabled, record_probe_hit, the
\* program, then the event.
handle_guest_brk_locks ==
    Locked("GUEST_KPROBE_REGISTRY") \o Locked("GUEST_KPROBE_REGISTRY")
    \o run_program_locks \o emit_event_locks

LockOps ==
    {unload_program_locks, disable_locks, consume_stale_brk_locks, emit_event_locks,
     handle_guest_brk_locks, <<Enter("f")>>}

Running(c) == thr[c].pc = "run"
NextStep(c) == Head(Unwrap(thr[c].loc))
Advance(c, steps) ==
    [thr EXCEPT ![c] = IF steps = <<>> THEN ThrIdle ELSE [pc |-> "run", loc |-> Some(steps)]]

LockFrame ==
    /\ UNCHANGED <<PROGRAM_REGISTRY, clones, loadret, ATTACHMENTS, attret, LOOKUP_BUFFER>>
    /\ UNCHANGED <<KPROBE_REGISTRY, text, points, hret, slotVars>>
    /\ UNCHANGED <<guestVars, mapVars>>
    /\ UNCHANGED <<RINGBUF_FD, FALLBACK_EVENTS, NAME_TABLE, EVENT_NAME_MAP, STATS_REGISTRY,
                   time_ns, delivered, evret, cpu, emitted>>

\* An idle CPU begins an operation.
LockStart ==
    \E c \in CPUs, op \in LockOps :
        /\ thr[c].pc = "idle"
        /\ thr' = Advance(c, op)
        /\ UNCHANGED mutex
        /\ LockFrame

\* lock(): the CPU spins until the mutex is free.
LockAcquire ==
    \E c \in CPUs :
        /\ Running(c)
        /\ NextStep(c)[1] = "acq"
        /\ mutex[NextStep(c)[2]] = 0
        /\ mutex' = [mutex EXCEPT ![NextStep(c)[2]] = c]
        /\ thr' = Advance(c, Tail(Unwrap(thr[c].loc)))
        /\ LockFrame

\* The guard is dropped.
LockRelease ==
    \E c \in CPUs :
        /\ Running(c)
        /\ NextStep(c)[1] = "rel"
        /\ mutex' = [mutex EXCEPT ![NextStep(c)[2]] = 0]
        /\ thr' = Advance(c, Tail(Unwrap(thr[c].loc)))
        /\ LockFrame

\* The CPU executes the first instruction of a function: where a host probe is
\* enabled it is the breakpoint, and the handler runs before the function.
LockEnter ==
    \E c \in CPUs :
        /\ Running(c)
        /\ NextStep(c)[1] = "enter"
        /\ thr' = Advance(c,
                     IF hprobe_lookup(H, Unwrap(lookup_addr(SymbolOf(NextStep(c)[2])))) = Some(TRUE)
                     THEN handle_main_breakpoint_locks \o Tail(Unwrap(thr[c].loc))
                     ELSE Tail(Unwrap(thr[c].loc)))
        /\ UNCHANGED mutex
        /\ LockFrame

\* attach and detach of a host probe hold the host-probe registry throughout.
LockAttach ==
    /\ mutex["KPROBE_REGISTRY"] = 0
    /\ \E name \in TrapSymbols :
           SetH(hprobe_attach(H, name, 1, FALSE), "attach", name, 0, 1, FALSE)

LockDetach ==
    /\ mutex["KPROBE_REGISTRY"] = 0
    /\ \E name \in TrapSymbols :
           SetH(hprobe_detach(H, name), "detach", name, 0, 0, FALSE)

InitLock ==
    /\ InitGuestWith({"aarch64"}, OrigWords)
    /\ InitLoader
    /\ MAP_REGISTRY = <<>>
    /\ RINGBUF_FD = None
    /\ FALLBACK_EVENTS = <<>>
    /\ NAME_TABLE = <<>>
    /\ EVENT_NAME_MAP = <<>>
    /\ STATS_REGISTRY = <<>>
    /\ time_ns = 0
    /\ delivered = <<>>
    /\ evret = <<>>
    /\ cpu = [c \in CPUs |-> CpuIdle]
    /\ mutex = [l \in LockNames |-> 0]
    /\ emitted = <<>>

NextLock ==
    \/ LockStart
    \/ LockAcquire
    \/ LockRelease
    \/ LockEnter
    \/ LockAttach
    \/ LockDetach

SpecLock == InitLock /\ [][NextLock]_vars

\* The CPU whose mutex c spins on, 0 when c is not spinning.
WaitsFor(c) ==
    IF Running(c) /\ NextStep(c)[1] = "acq" THEN mutex[NextStep(c)[2]] ELSE 0

\* ---------------------------------------------------------------------------
\* The operations of the instruction-slot pool on their own
\* ---------------------------------------------------------------------------
\* The addresses free_slot is called with: the slots at both ends of the
\* pool, an address inside a slot, and addresses outside the pool.
FreeAddrs ==
    {slots_base - 1, slots_base, slots_base + 1, SlotAddr(1), slots_end}
    \cup {SlotAddr(i) : i \in (SlotPrefill - 1)..(NUM_SLOTS - 1)}

AllocSlotAny ==
    /\ SetS(alloc_slot(SLOT_BITMAP).bitmap, insn, ORIGINAL_PC,
            [op |-> "alloc", ok |-> IsSome(alloc_slot(SLOT_BITMAP).addr),
             addr |-> alloc_slot(SLOT_BITMAP).addr, cpu |-> 0, pc |-> 0, new_pc |-> None])
    /\ UNCHANGED <<KPROBE_REGISTRY, text, points, hret, raceVars>>
    /\ UNCHANGED <<PROGRAM_REGISTRY, clones, loadret, ATTACHMENTS, attret>>
    /\ UNCHANGED <<guestVars, mapVars, eventVars>>

FreeSlotAt ==
    \E addr \in FreeAddrs :
        /\ SetS(free_slot(SLOT_BITMAP, addr), insn, ORIGINAL_PC,
                [op |-> "free", ok |-> TRUE, addr |-> Some(addr), cpu |-> 0, pc |-> 0,
                 new_pc |-> None])
        /\ UNCHANGED <<KPROBE_REGISTRY, text, points, hret, raceVars>>
        /\ UNCHANGED <<PROGRAM_REGISTRY, clones, loadret, ATTACHMENTS, attret>>
        /\ UNCHANGED <<guestVars, mapVars, eventVars>>

\* The pool after SlotPrefill allocations and no free.
InitSlots ==
    /\ InitGuestWith({"aarch64"}, OrigWords) /\ InitEvents
    /\ PROGRAM_REGISTRY = <<>>
    /\ clones = <<>>
    /\ ATTACHMENTS = <<>>
    /\ attret = [op |-> "init", name |-> "", ok |-> TRUE, err |-> "",
                 live |-> FALSE, loaded |-> FALSE]
    /\ loadret = [op |-> "init", ok |-> TRUE, err |-> "", before |-> {}, id |-> 0]
    /\ KPROBE_REGISTRY = [probes |-> <<>>, name_map |-> <<>>]
    /\ text = HostText
    /\ points = <<>>
    /\ hret = [op |-> "init", ok |-> TRUE, err |-> "", name |-> "", addr |-> 0,
               prog_id |-> 0, is_ret |-> FALSE, both |-> FALSE]
    /\ SLOT_BITMAP = 0..(SlotPrefill - 1)
    /\ insn = <<>>
    /\ ORIGINAL_PC = [c \in CPUs |-> 0]
    /\ sret = [op |-> "alloc", ok |-> TRUE, addr |-> Some(SlotAddr(SlotPrefill - 1)),
               cpu |-> 0, pc |-> 0, new_pc |-> None]
    /\ thr = [c \in CPUs |-> ThrIdle]
    /\ LOOKUP_BUFFER = 0

NextSlots ==
    \/ AllocSlotAny
    \/ FreeSlotAt

SpecSlots == InitSlots /\ [][NextSlots]_vars

\* ---------------------------------------------------------------------------
\* Stale-trap recovery on one CPU while the probe of the same key is attached
\* and detached on another. consume_stale_brk takes its copy of the stale
\* entry under the stale registry's lock and writes the saved instruction
\* back after it has released the lock; the two halves are separate steps.
\* ---------------------------------------------------------------------------
MaxRaceTraps == 3
RaceKeys == {<<1, 1>>}

\* consume_stale_brk, the block that holds STALE_BRK_REGISTRY: the copy of
\* the entry, or None when the key has no entry.
consume_stale_brk_take(g, key) ==
    IF key \notin DOMAIN g.stale
    THEN [g |-> g, stale |-> None]
    ELSE [g |-> IF g.stale[key].retries_left <= 1
                THEN [g EXCEPT !.stale = Remove(@, key), !.order = Without(@, key)]
                ELSE [g EXCEPT !.stale[key].retries_left = @ - 1],
          stale |-> Some(g.stale[key])]

\* consume_stale_brk after the block: the write of the copy's saved
\* instruction.
consume_stale_brk_restore(g, key, st, a) ==
    IF ~restore_guest_breakpoint(g.mem, st.hva, st.saved_insn, a).ok
    THEN [g |-> g, retry |-> FALSE]
    ELSE [g |-> [g EXCEPT !.mem = restore_guest_breakpoint(g.mem, st.hva, st.saved_insn, a).mem,
                          !.abs = IF key \in DOMAIN @ THEN [@ EXCEPT ![key] = @ + 1] ELSE @],
          retry |-> TRUE]

\* The state after CPU c's half-step answered r (its copy is r.stale).
Taken(c, key, r) ==
    /\ SetG(r.g)
    /\ thr' = [thr EXCEPT ![c] = IF IsSome(r.stale)
                                  THEN [pc |-> "restore", loc |-> <<key, Unwrap(r.stale)>>]
                                  ELSE ThrIdle]
    /\ ret' = Ret(IF IsSome(r.stale) THEN "consume_stale_brk_take" ELSE "consume_stale_brk",
                  key, FALSE, IF IsSome(r.stale) THEN "stale" ELSE "absent", r.g)

ConsumeTake(K, cap) ==
    \E c \in CPUs, key \in K :
        /\ thr[c].pc = "idle"
        /\ nTraps < cap
        /\ nTraps' = nTraps + 1
        /\ Taken(c, key, consume_stale_brk_take(G, key))
        /\ UNCHANGED <<arch, mapVars, eventVars>>
        /\ UNCHANGED <<PROGRAM_REGISTRY, clones, loadret, ATTACHMENTS, attret>>
        /\ UNCHANGED <<KPROBE_REGISTRY, text, points, hret, slotVars, LOOKUP_BUFFER>>

Restored(c, key, r) ==
    /\ SetG(r.g)
    /\ thr' = [thr EXCEPT ![c] = ThrIdle]
    /\ ret' = Ret("consume_stale_brk", key, r.retry, "stale", r.g)

ConsumeRestore ==
    \E c \in CPUs :
        /\ thr[c].pc = "restore"
        /\ Restored(c, thr[c].loc[1],
                    consume_stale_brk_restore(G, thr[c].loc[1], thr[c].loc[2], arch))
        /\ UNCHANGED <<arch, nTraps, mapVars, eventVars>>
        /\ UNCHANGED <<PROGRAM_REGISTRY, clones, loadret, ATTACHMENTS, attret>>
        /\ UNCHANGED <<KPROBE_REGISTRY, text, points, hret, slotVars, LOOKUP_BUFFER>>

InitRace == InitGuestWith({"aarch64"}, OrigWords) /\ InitEvents /\ InitLoader

NextRace ==
    \/ Attach(RaceKeys, Bindings, {"BrkInject"})
    \/ Detach(RaceKeys)
    \/ ConsumeTake(RaceKeys, MaxRaceTraps)
    \/ ConsumeRestore

SpecRace == InitRace /\ [][NextRace]_vars

\* ===========================================================================
\* Properties
\* ===========================================================================

\* C1: after a load_program that returned an error, the live map handles are
\* those that were live before the call.
C1_FailedLoadDestroysMaps ==
    (loadret.op = "load_program" /\ ~loadret.ok)
        => LiveMaps(MAP_REGISTRY) = loadret.before

\* C2: a guest breakpoint trap delivered to handle_guest_brk at the key of a
\* detached BrkInject probe, while its stale entry is still in the stale
\* registry and no enabled probe matches, is answered with retry-requested
\* (handled), never with unhandled.
C2_StaleTrapRequestsRetry ==
    (ret.op = "handle_guest_brk" /\ ret.detail = "stale") => ret.ok

C4_MatchIsHandled ==
    (ret.op \in {"handle_guest_brk", "handle_stage2_exec_fault"} /\ ret.detail = "enabled")
        => ret.ok

\* C5: a stale entry answers at most STALE_BRK_RETRY_BUDGET traps with retry;
\* once it has answered that many it is gone, and a trap at a key with no
\* stale entry is reported as not recovered.
C5_BudgetBounded ==
    /\ \A k \in DOMAIN absorbed :
          /\ absorbed[k] <= STALE_BRK_RETRY_BUDGET
          /\ absorbed[k] = STALE_BRK_RETRY_BUDGET => k \notin DOMAIN stale
    /\ (ret.op = "consume_stale_brk" /\ ret.detail = "absent") => ~ret.ok

C5_Witness ==
    /\ ret.op = "consume_stale_brk" /\ ret.detail = "absent" /\ ~ret.ok
    /\ ret.key \in DOMAIN absorbed
    /\ absorbed[ret.key] = STALE_BRK_RETRY_BUDGET

\* C6: when adding a stale entry evicts one, the entry evicted is the one
\* that was added earliest.
C6_EvictsOldest ==
    IsSome(ret.ev.victim) => ret.ev.victim = ret.ev.oldest

\* C7: the stale registry never holds more than STALE_BRK_MAX_ENTRIES entries.
C7_StaleRegistryBounded ==
    Cardinality(DOMAIN stale) <= STALE_BRK_MAX_ENTRIES

C7_Witness ==
    IsSome(ret.ev.victim) /\ Cardinality(DOMAIN stale) = STALE_BRK_MAX_ENTRIES

\* C8 as claimed: after an attach whose enable failed, no entry for the key is
\* registered and lookup_enabled for the key returns none.
C8_RollbackLookupNone ==
    (ret.op = "attach" /\ ~ret.ok /\ ret.detail = "fresh")
        => /\ ret.key \notin DOMAIN probes
           /\ lookup_enabled(probes, ret.key[1], ret.key[2]) = None

\* C8 as amended: after an attach whose enable failed, no entry for the key is
\* registered, and lookup_enabled for the key returns none unless an enabled
\* wildcard probe (0, gva) exists, whose binding it then returns.
C8_RollbackUndoesRegistration ==
    (ret.op = "attach" /\ ~ret.ok /\ ret.detail = "fresh")
        => /\ ret.key \notin DOMAIN probes
           /\ LET w == <<0, ret.key[2]>>
              IN  lookup_enabled(probes, ret.key[1], ret.key[2]) =
                    IF w \in DOMAIN probes /\ probes[w].state = "Enabled"
                    THEN Some(<<probes[w].prog_id, probes[w].is_ret>>)
                    ELSE None

C8_Witness ==
    ret.op = "attach" /\ ~ret.ok /\ ret.detail = "fresh" /\ ret.key[1] # 0

\* C9: an enable that returns an error (on its own or inside attach) changes
\* no guest text word and no stage-2 execute permission, and leaves the entry,
\* if it is still registered, not Enabled and without a saved instruction.
C9_FailedEnableLeavesTarget ==
    [][ ((ret'.op = "enable" /\ ~ret'.ok)
            \/ (ret'.op = "attach" /\ ~ret'.ok /\ ret'.detail = "fresh"))
        => /\ mem' = mem
           /\ s2exec' = s2exec
           /\ ret'.key \in DOMAIN probes'
                => /\ probes'[ret'.key].state # "Enabled"
                   /\ probes'[ret'.key].saved_insn = None ]_vars

C9_Witness ==
    /\ ret.op = "enable" /\ ~ret.ok
    /\ ret.key \in DOMAIN probes
    /\ probes[ret.key].mode = "BrkInject"
    /\ arch # "other"

\* C10: after a disable or detach that removed the breakpoint of an Enabled
\* BrkInject probe, the guest text word at the probe's host virtual address
\* is the word that was there just before the probe was enabled.
C10_DisableRestoresWord ==
    (ret.op \in {"disable", "detach"} /\ ret.ok /\ IsSome(ret.pre))
        => mem[gva_to_hva_for_vm(ret.key[2], ret.key[1])] = Unwrap(ret.pre)

C10_Witness ==
    /\ ret.op \in {"disable", "detach"} /\ ret.ok /\ IsSome(ret.pre)
    /\ ret.detail = "Enabled"

\* C11: a trap at address a from VM v fires the enabled probe keyed (v, a)
\* when there is one, otherwise the enabled wildcard probe keyed (0, a) when
\* there is one, and nothing otherwise.
C11_WildcardMatchesEveryVm ==
    [][ (/\ nTraps' = nTraps + 1
         /\ ret'.op \in {"handle_guest_brk", "handle_stage2_exec_fault"}
         /\ ret'.detail # "not_exec")
        => LET k == ret'.key
               w == <<0, k[2]>>
               e == IF k \in DOMAIN probes /\ probes[k].state = "Enabled" THEN Some(k)
                    ELSE IF w \in DOMAIN probes /\ probes[w].state = "Enabled" THEN Some(w)
                    ELSE None
           IN  ret'.fired = IF IsSome(e)
                            THEN Some(<<probes[Unwrap(e)].prog_id, probes[Unwrap(e)].is_ret>>)
                            ELSE None ]_vars

\* C12: a trap for which the registry lookup (VM-specific entry first, then
\* the wildcard) finds an Enabled entry adds one to the hit counter of that
\* entry and of no other, creates one event record, of kind kprobe or
\* kretprobe by the entry's return flag, queues it and counts it in the stats
\* of its event id, and runs the entry's program; any other trap changes no
\* hit counter, creates no record and runs no program.
C12_MatchFiresOnce ==
    [][ (/\ nTraps' = nTraps + 1
         /\ ret'.op \in {"handle_guest_brk", "handle_stage2_exec_fault"})
        => LET k == ret'.key
               m == IF ret'.detail = "not_exec" THEN None
                    ELSE lookup_enabled(probes, k[1], k[2])
               f == Unwrap(lookup(probes, k[1], k[2]))
               id == k[2]
               old == IF id \in DOMAIN STATS_REGISTRY THEN STATS_REGISTRY[id].count ELSE 0
           IN  IF IsSome(m)
               THEN /\ probes' = [probes EXCEPT ![f].hits = @ + 1]
                    /\ ret'.fired = Some(<<probes[f].prog_id, probes[f].is_ret>>)
                    /\ time_ns' = time_ns + 1
                    /\ DOMAIN delivered' = DOMAIN delivered \cup {time_ns'}
                    /\ FALLBACK_EVENTS' = Append(FALLBACK_EVENTS,
                           FALLBACK_EVENTS'[Len(FALLBACK_EVENTS')])
                    /\ LET ev == FALLBACK_EVENTS'[Len(FALLBACK_EVENTS')]
                       IN  /\ ev.timestamp_ns = time_ns'
                           /\ ev.probe_type = IF probes[f].is_ret THEN PROBE_KRETPROBE
                                              ELSE PROBE_KPROBE
                           /\ ev.event_id = id
                           /\ ev.vm_id = k[1]
                    /\ STATS_REGISTRY'[id].count = old + 1
               ELSE /\ probes' = probes
                    /\ ret'.fired = None
                    /\ UNCHANGED eventVars ]_vars

C12_Witness ==
    /\ ret.op \in {"handle_guest_brk", "handle_stage2_exec_fault"}
    /\ ret.fired = Some(<<1, TRUE>>)
    /\ ret.key[1] # 0
    /\ ret.key \notin DOMAIN probes
    /\ probes[<<0, ret.key[2]>>].hits = 2
    /\ Len(FALLBACK_EVENTS) = 2

\* C13: the maps of a program are live while a handle of it exists, in the
\* registry or cloned out of it, and none of them is live once its last
\* handle is gone.
C13_MapsLiveWhileHandleExists ==
    [][ LET held(progs, cl) ==
                [a \in RegistryArcs(progs) \cup DOMAIN cl |->
                    IF a \in DOMAIN cl THEN cl[a].map_fds
                    ELSE Unwrap(progs[CHOOSE i \in DOMAIN progs :
                                        IsSome(progs[i]) /\ Unwrap(progs[i]).arc = a]).map_fds]
            before == held(PROGRAM_REGISTRY, clones)
            after == held(PROGRAM_REGISTRY', clones')
        IN  /\ \A a \in DOMAIN after :
                  \A i \in DOMAIN after[a] : after[a][i][2] \in LiveMaps(MAP_REGISTRY')
            /\ \A a \in DOMAIN before \ DOMAIN after :
                  \A i \in DOMAIN before[a] : before[a][i][2] \notin LiveMaps(MAP_REGISTRY')
      ]_vars

C13_Witness ==
    /\ loadret.op = "drop"
    /\ loadret.before # {}
    /\ LiveMaps(MAP_REGISTRY) # loadret.before
    /\ PROGRAM_REGISTRY # <<>>

\* C14: attach returns AlreadyAttached exactly when an attachment for the name
\* is live at the time of the call.
C14_AlreadyAttachedIffLive ==
    attret.op = "attach" => (attret.err = "AlreadyAttached" <=> attret.live)

\* C15: a CPU inside emit_event holds no lock other than the fallback-queue
\* mutex, the ring-buffer map mutex and the name-table mutex, holds at most one
\* lock at a time, and holds none while it executes an attached program.
C15_OnlyThreeLeafLocks ==
    \A c \in CPUs :
        LET held == {l \in Locks : mutex[l] = c}
        IN  /\ held \subseteq {"FALLBACK_EVENTS", "MAP_REGISTRY", "NAME_TABLE"}
            /\ Cardinality(held) <= 1
            /\ cpu[c].pc = "execute_attached_program" => held = {}

RECURSIVE SumDurations(_)
SumDurations(events) ==
    IF events = <<>> THEN 0 ELSE Head(events).duration_ns + SumDurations(Tail(events))

\* C16: once every emit_event call has completed, the stats of an event id
\* report count = the calls for the id, samples (and histogram entries) = the
\* calls with a non-zero duration, and min, max and sum = the minimum, maximum
\* and sum of the non-zero durations; zero-duration calls count only in count.
C16_StatsMatchCalls ==
    (\A c \in CPUs : cpu[c].pc = "idle") =>
        \A id \in EventIds :
            LET calls == SelectSeq(emitted, LAMBDA r : r.event_id = id)
                nz == SelectSeq(calls, LAMBDA r : r.duration_ns # 0)
                ds == {nz[i].duration_ns : i \in DOMAIN nz}
            IN  IF calls = <<>>
                THEN id \notin DOMAIN STATS_REGISTRY
                ELSE /\ id \in DOMAIN STATS_REGISTRY
                     /\ STATS_REGISTRY[id].count = Len(calls)
                     /\ STATS_REGISTRY[id].duration_samples = Len(nz)
                     /\ STATS_REGISTRY[id].histogram = Len(nz)
                     /\ STATS_REGISTRY[id].duration_sum = SumDurations(nz)
                     /\ STATS_REGISTRY[id].duration_min =
                            IF nz = <<>> THEN None
                            ELSE Some(CHOOSE d \in ds : \A x \in ds : d <= x)
                     /\ STATS_REGISTRY[id].duration_max =
                            IF nz = <<>> THEN 0
                            ELSE CHOOSE d \in ds : \A x \in ds : d >= x

\* Two calls for one id on two CPUs have completed, their accesses
\* interleaved (the earlier record stored last_ts last), the larger duration
\* recorded by the earlier record.
C16_Witness ==
    /\ \A c \in CPUs : cpu[c].pc = "idle"
    /\ Len(emitted) = 2
    /\ emitted[1].cpu_id # emitted[2].cpu_id
    /\ emitted[1].event_id = emitted[2].event_id
    /\ emitted[1].duration_ns = 5
    /\ emitted[2].duration_ns = 3
    /\ STATS_REGISTRY[emitted[1].event_id].last_ts = emitted[1].timestamp_ns
    /\ STATS_REGISTRY[emitted[1].event_id].duration_min = Some(3)

\* C20: in each source (the fallback queue, the ring-buffer map) a record
\* never precedes a record from another CPU that carries a smaller timestamp.
C20_CrossCpuTimestampOrder ==
    \A src \in {FALLBACK_EVENTS} \cup
                {Unwrap(MAP_REGISTRY[fd + 1]).data :
                    fd \in {x \in LiveMaps(MAP_REGISTRY) : RINGBUF_FD = Some(x)}} :
        \A i \in DOMAIN src, j \in DOMAIN src :
            i < j /\ src[i].cpu_id # src[j].cpu_id =>
                src[i].timestamp_ns <= src[j].timestamp_ns

\* C17: every emit_event call appends its record to the fallback queue,
\* with or without a ring buffer and whatever the ring-buffer push answers, and
\* a consume_events(0) that follows returns the record.
C17_EmitAlwaysQueues ==
    [][ time_ns' = time_ns + 1 =>
            /\ FALLBACK_EVENTS' # <<>>
            /\ FALLBACK_EVENTS'[Len(FALLBACK_EVENTS')].timestamp_ns = time_ns'
            /\ \E i \in DOMAIN consume_events(E', 0).events :
                   consume_events(E', 0).events[i] = FALLBACK_EVENTS'[Len(FALLBACK_EVENTS')]
      ]_vars

\* A ring buffer exists, its push failed (the map is empty and nothing was
\* consumed yet), and the record is in the fallback queue.
C17_Witness ==
    /\ IsSome(RINGBUF_FD)
    /\ Unwrap(MAP_REGISTRY[Unwrap(RINGBUF_FD) + 1]).data = <<>>
    /\ Len(FALLBACK_EVENTS) = 1
    /\ \A ts \in DOMAIN delivered : delivered[ts] = 0

\* C18: the fallback queue never holds more than 8192 records, and an append
\* made when it holds 8192 discards exactly the oldest record and keeps the
\* new one.
C18_FallbackBounded ==
    [][ /\ Len(FALLBACK_EVENTS') <= FALLBACK_QUEUE_CAPACITY
        /\ time_ns' = time_ns + 1 /\ Len(FALLBACK_EVENTS) = FALLBACK_QUEUE_CAPACITY =>
               /\ Len(FALLBACK_EVENTS') = FALLBACK_QUEUE_CAPACITY
               /\ FALLBACK_EVENTS'[FALLBACK_QUEUE_CAPACITY].timestamp_ns = time_ns'
               /\ SubSeq(FALLBACK_EVENTS', 1, FALLBACK_QUEUE_CAPACITY - 1) =
                      Tail(FALLBACK_EVENTS)
      ]_vars

\* An append was made at capacity: the oldest record is gone, the second
\* oldest heads the queue and the new record ends it.
C18_Witness ==
    /\ Len(FALLBACK_EVENTS) = FALLBACK_QUEUE_CAPACITY
    /\ FALLBACK_EVENTS[1].timestamp_ns = 2
    /\ FALLBACK_EVENTS[FALLBACK_QUEUE_CAPACITY].timestamp_ns = FALLBACK_QUEUE_CAPACITY + 1

\* The records queued in the ring-buffer map fd names, oldest first.
RingRecords(reg, fd) ==
    IF IsSome(fd) /\ IsLive(reg, Unwrap(fd)) THEN Unwrap(reg[Unwrap(fd) + 1]).data ELSE <<>>

InEmissionOrder(events) ==
    \A i \in DOMAIN events, j \in DOMAIN events :
        i < j => events[i].timestamp_ns < events[j].timestamp_ns

C21_NameTableCapped ==
    /\ Len(NAME_TABLE) <= U16_MAX - 1
    /\ get_event_name(NAME_TABLE, U16_MAX) = None
    /\ Len(NAME_TABLE) = U16_MAX - 1 =>
           \A name \in FreshNames \cup {1, 2} :
               /\ register_event_name(NAME_TABLE, name).names = NAME_TABLE
               /\ register_event_name(NAME_TABLE, name).idx =
                      IF \E i \in DOMAIN NAME_TABLE : NAME_TABLE[i] = name
                      THEN IndexOf(NAME_TABLE, name) - 1
                      ELSE U16_MAX

\* C22: a host registration of a kind already present at the address is
\* rejected and leaves the registry unchanged; a registration of a kind not yet
\* present for the symbol of the address succeeds, stores its own program id
\* and leaves the slot of the other kind as it was; a pair is kept only while
\* one of its two slots is filled, under the name the index maps to it.
C22_OneSlotPerKind ==
    [][ /\ \A a \in DOMAIN KPROBE_REGISTRY'.probes :
               /\ KPROBE_REGISTRY'.probes[a].addr = a
               /\ KPROBE_REGISTRY'.probes[a].name \in DOMAIN KPROBE_REGISTRY'.name_map
               /\ KPROBE_REGISTRY'.name_map[KPROBE_REGISTRY'.probes[a].name] = a
               /\ IsSome(KPROBE_REGISTRY'.probes[a].entry_slot) \/
                  IsSome(KPROBE_REGISTRY'.probes[a].ret_slot)
        /\ hret'.op = "register" /\ lookup_addr(hret'.name) # None =>
               LET a == Unwrap(lookup_addr(hret'.name))
                   pre == KPROBE_REGISTRY.probes
                   post == KPROBE_REGISTRY'.probes
                   present == a \in DOMAIN pre /\ IsSome(slot_ref(pre[a], hret'.is_ret))
                   same == a \notin DOMAIN pre \/ pre[a].name = hret'.name
               IN  /\ present => ~hret'.ok /\ KPROBE_REGISTRY' = KPROBE_REGISTRY
                   /\ ~present /\ same =>
                          /\ hret'.ok
                          /\ a \in DOMAIN post
                          /\ Unwrap(slot_ref(post[a], hret'.is_ret)).prog_id = hret'.prog_id
                          /\ slot_ref(post[a], ~hret'.is_ret) =
                                 IF a \in DOMAIN pre THEN slot_ref(pre[a], ~hret'.is_ret)
                                 ELSE None
      ]_vars

\* The return probe was registered after the entry probe of the same
\* symbol: both slots are filled, each with its own program id.
C22_Witness ==
    /\ hret.op = "register"
    /\ hret.ok
    /\ hret.is_ret
    /\ 1 \in DOMAIN KPROBE_REGISTRY.probes
    /\ IsSome(KPROBE_REGISTRY.probes[1].entry_slot)
    /\ IsSome(KPROBE_REGISTRY.probes[1].ret_slot)
    /\ Unwrap(KPROBE_REGISTRY.probes[1].entry_slot).prog_id = 1
    /\ Unwrap(KPROBE_REGISTRY.probes[1].ret_slot).prog_id = 2

\* C23: detach(name) of a registered symbol succeeds, unregisters the
\* library probe of every enabled slot and removes every slot of the symbol:
\* afterwards the pair registry holds no pair for its address, the name index
\* does not hold the name, no probe point is left at the address, and the
\* pairs of other addresses are as before.
C23_DetachRemovesBothSlots ==
    [][ hret'.op = "detach" /\ hret'.name \in DOMAIN KPROBE_REGISTRY.name_map =>
            LET a == KPROBE_REGISTRY.name_map[hret'.name]
            IN  /\ hret'.ok
                /\ a \notin DOMAIN KPROBE_REGISTRY'.probes
                /\ hret'.name \notin DOMAIN KPROBE_REGISTRY'.name_map
                /\ \A x \in DOMAIN KPROBE_REGISTRY'.probes :
                       KPROBE_REGISTRY'.probes[x].name # hret'.name
                /\ a \notin DOMAIN points'
                /\ KPROBE_REGISTRY'.probes = Remove(KPROBE_REGISTRY.probes, a)
      ]_vars

\* A symbol with an entry slot and a return slot was detached while another
\* symbol stays registered.
C23_Witness ==
    /\ hret.op = "detach"
    /\ hret.ok
    /\ hret.both
    /\ hret.name = "f"
    /\ DOMAIN KPROBE_REGISTRY.probes = {2}

\* C24: a host unregister(address, kind) for an address without a pair, or
\* for a kind whose slot at the address is empty, succeeds and changes nothing.
C24_UnregisterAbsentSucceeds ==
    [][ /\ hret'.op = "unregister"
        /\ \/ hret'.addr \notin DOMAIN KPROBE_REGISTRY.probes
           \/ slot_ref(KPROBE_REGISTRY.probes[hret'.addr], hret'.is_ret) = None
        => /\ hret'.ok
           /\ KPROBE_REGISTRY' = KPROBE_REGISTRY
           /\ text' = text
           /\ points' = points
      ]_vars

\* C25: attach(name) on an address without a probe pair starts from the
\* original text word, and detach(name) leaves the text word at the address
\* equal to that word, whether the symbol carried an entry probe, a return
\* probe or both.
C25_DetachRestoresText ==
    [][ /\ /\ hret'.op = "attach"
           /\ IsSome(lookup_addr(hret'.name))
           /\ Unwrap(lookup_addr(hret'.name)) \notin DOMAIN KPROBE_REGISTRY.probes
           => text[Unwrap(lookup_addr(hret'.name))] = HostText[Unwrap(lookup_addr(hret'.name))]
        /\ /\ hret'.op = "detach"
           /\ hret'.name \in DOMAIN KPROBE_REGISTRY.name_map
           => /\ hret'.ok
              /\ text'[KPROBE_REGISTRY.name_map[hret'.name]] =
                     HostText[KPROBE_REGISTRY.name_map[hret'.name]]
      ]_vars

C25_Witness ==
    /\ hret.op = "detach"
    /\ hret.ok
    /\ hret.both
    /\ hret.name = "g"
    /\ text[2] = HostText[2]
    /\ text[1] = HOST_BRK

\* C26: a guest attach for a key that already has a registered probe fails and
\* leaves the existing probe, and everything else the manager owns, as it was.
C26_DuplicateAttachRejected ==
    [][ ret'.op = "attach" /\ ret'.key \in DOMAIN probes
        => /\ ~ret'.ok
           /\ ret'.key \in DOMAIN probes'
           /\ probes'[ret'.key] = probes[ret'.key]
           /\ UNCHANGED <<probes, stale, staleOrder, mem, s2exec, mockFail>>
      ]_vars

C26_Witness ==
    /\ ret.op = "attach"
    /\ ret.detail = "conflict"
    /\ ~ret.ok
    /\ ret.key \in DOMAIN probes
    /\ probes[ret.key].state = "Enabled"

\* C27: a guest disable of a probe that is Disabled, Registered (never
\* enabled) or absent succeeds and changes nothing; a guest detach of an absent
\* probe succeeds and changes nothing.
C27_DisableDetachIdempotent ==
    [][ /\ ret'.op = "disable" /\ ret'.detail \in {"Disabled", "Registered", "absent"}
           => ret'.ok /\ UNCHANGED <<probes, stale, staleOrder, mem, s2exec, mockFail>>
        /\ ret'.op = "detach" /\ ret'.detail = "absent"
           => ret'.ok /\ UNCHANGED <<probes, stale, staleOrder, mem, s2exec, mockFail>>
      ]_vars

C27_Witness ==
    /\ ret.op = "disable"
    /\ ret.detail = "Disabled"
    /\ ret.ok
    /\ ret.key \in DOMAIN probes
    /\ probes[ret.key].state = "Disabled"

\* C28: a map handle designates the same map from its creation until destroy
\* is called on it. A live handle stays live, with the same map, through every
\* operation except its own destroy; only update and delete on the handle
\* itself change its map's contents; and a slot becomes live only through a
\* create that returns its handle, which was not live before.
C28_HandleStable ==
    [][ /\ \A fd \in LiveMaps(MAP_REGISTRY) :
              \/ loadret'.op = "destroy" /\ loadret'.id = fd /\ loadret'.ok
              \/ /\ fd \in LiveMaps(MAP_REGISTRY')
                 /\ \/ MAP_REGISTRY'[fd + 1] = MAP_REGISTRY[fd + 1]
                    \/ /\ loadret'.op \in {"update_elem", "delete_elem"}
                       /\ loadret'.id = fd
                       /\ Unwrap(MAP_REGISTRY'[fd + 1]).map_type =
                              Unwrap(MAP_REGISTRY[fd + 1]).map_type
        /\ \A fd \in LiveMaps(MAP_REGISTRY') \ LiveMaps(MAP_REGISTRY) :
              loadret'.op = "create" /\ loadret'.ok /\ loadret'.id = fd
        /\ loadret'.op = "create" /\ loadret'.ok
              => /\ loadret'.id \notin LiveMaps(MAP_REGISTRY)
                 /\ LiveMaps(MAP_REGISTRY') = LiveMaps(MAP_REGISTRY) \cup {loadret'.id}
      ]_vars

\* A create has reused the slot of a destroyed map while another map, with
\* entries, is live.
C28_Witness ==
    /\ loadret.op = "create"
    /\ loadret.ok
    /\ loadret.id = 0
    /\ Len(MAP_REGISTRY) = 2
    /\ LiveMaps(MAP_REGISTRY) = {0, 1}
    /\ DOMAIN MapData(MAP_REGISTRY, 1) # {}
    /\ DOMAIN MapData(MAP_REGISTRY, 0) = {}

\* C29: delete on a live hash map for a key that is not present fails with
\* KeyNotFound and leaves the map unchanged.
C29_DeleteAbsentKeyNotFound ==
    [][ /\ loadret'.op = "delete_elem"
        /\ IsLive(MAP_REGISTRY, loadret'.id)
        /\ loadret'.key \notin DOMAIN MapData(MAP_REGISTRY, loadret'.id)
        => /\ ~loadret'.ok
           /\ loadret'.err = "KeyNotFound"
           /\ MAP_REGISTRY' = MAP_REGISTRY
      ]_vars

\* C30: a loaded program whose probe section calls into .text carries the
\* .text code after the probe section's code, so its bytecode is longer than
\* the probe section, and the displacement of the call is the distance, in
\* instructions, from the instruction after the call to the appended callee.
C30_CallsMerged ==
    \A i \in DOMAIN PROGRAM_REGISTRY :
        IsSome(PROGRAM_REGISTRY[i])
        => /\ Len(Unwrap(PROGRAM_REGISTRY[i]).bytecode) > Len(CallCode)
           /\ SubSeq(Unwrap(PROGRAM_REGISTRY[i]).bytecode, CallOffset + 5, CallOffset + 8) =
                  to_le_bytes((Len(CallCode) - CallOffset) \div 8 - 1)

\* The relocations of an object that name one of its maps, all of them
\* materialised: the map-handle relocations the relocation loop reaches.
MapRelocs(data) ==
    IF data.format = "elf"
       /\ \A j \in DOMAIN data.maps :
              data.maps[j].create_ok /\ MapTypeOf(data.maps[j].map_type) # None
    THEN {i \in DOMAIN data.rels : \E j \in DOMAIN data.maps : data.maps[j].name = data.rels[i].sym}
    ELSE {}

\* The program loaded by r carries data's code section with relocation i
\* applied and nothing else changed.
MapHandlePatched(data, i, r) ==
    LET prog == Unwrap(r.progs[r.id + 1])
        off == data.rels[i].offset
    IN  /\ prog.bytecode[off + 1] = 24
        /\ \E k \in DOMAIN prog.map_fds :
               /\ prog.map_fds[k][1] = data.rels[i].sym
               /\ SubSeq(prog.bytecode, off + 5, off + 8) = to_le_bytes(prog.map_fds[k][2])
        /\ SubSeq(prog.bytecode, off + 13, off + 16) = <<0, 0, 0, 0>>
        /\ Len(prog.bytecode) = Len(data.code)
        /\ \A b \in 1..Len(data.code) :
               b \notin (off + 5)..(off + 8) \cup (off + 13)..(off + 16)
               => prog.bytecode[b] = data.code[b]

C32_FirstFit ==
    [][ sret'.op = "alloc"
        => /\ sret'.addr = None <=> Cardinality(SLOT_BITMAP) = 64
           /\ sret'.addr = None => SLOT_BITMAP' = SLOT_BITMAP
           /\ sret'.addr # None =>
                 \E i \in 0..63 :
                    /\ Unwrap(sret'.addr) = SlotAddr(i)
                    /\ i \notin SLOT_BITMAP
                    /\ \A j \in 0..(i - 1) : j \in SLOT_BITMAP
                    /\ SLOT_BITMAP' = SLOT_BITMAP \cup {i}
      ]_vars

\* An alloc found every slot in use.
C32_Witness ==
    /\ sret.op = "alloc"
    /\ sret.addr = None
    /\ SLOT_BITMAP = 0..63

\* C33: while a BrkInject guest probe is Enabled, the instruction word at its
\* host virtual address is the breakpoint encoding, whatever stale-trap
\* recovery for the same key does on another CPU.
C33_EnabledWordIsBreakpoint ==
    \A key \in DOMAIN probes :
        probes[key].state = "Enabled" /\ probes[key].mode = "BrkInject"
        => mem[Unwrap(probes[key].resolved_hva)] = GUEST_BRK_INSN(arch)

\* C34: every binding in the attachment registry refers to a program id that
\* is loaded.
C34_BindingsReferLoaded ==
    \A tracepoint \in DOMAIN ATTACHMENTS :
        IsLoaded(PROGRAM_REGISTRY, ATTACHMENTS[tracepoint].prog_id)

\* C37: a guest attach that fails leaves the stale registry as it was before
\* the call: a stale entry recorded for the same key by an earlier detach is
\* still present with its remaining retry budget.
C37_FailedAttachKeepsStale ==
    [][(ret'.op = "attach" /\ ~ret'.ok) => stale' = stale]_vars

\* C39: an entry of the guest-probe registry holds a saved instruction and a
\* resolved host virtual address if and only if it is Enabled in BrkInject
\* mode, and holds a resolved guest physical address if and only if it is
\* Enabled in Stage2Fault mode.
C39_ResolvedFieldsMatchState ==
    \A key \in DOMAIN probes :
        LET e == probes[key]
        IN  /\ IsSome(e.saved_insn) <=> (e.state = "Enabled" /\ e.mode = "BrkInject")
            /\ IsSome(e.resolved_hva) <=> (e.state = "Enabled" /\ e.mode = "BrkInject")
            /\ IsSome(e.resolved_gpa) <=> (e.state = "Enabled" /\ e.mode = "Stage2Fault")

\* A BrkInject probe is enabled while a Stage2Fault probe that was enabled is
\* disabled again.
C39_Witness ==
    /\ \E key \in DOMAIN probes :
           probes[key].state = "Enabled" /\ probes[key].mode = "BrkInject"
    /\ \E key \in DOMAIN probes :
           probes[key].state = "Disabled" /\ probes[key].mode = "Stage2Fault"

\* C36: with several host probes enabled, a main-breakpoint trap at probe
\* address A sends the CPU to the instruction slot that holds A's original
\* instruction, and a single-step-complete trap handled on a CPU resumes at
\* the address its last main breakpoint saved, plus 4.
C36_TrapUsesOwnSlot ==
    [][/\ (sret'.op = "main_breakpoint" /\ sret'.ok)
              => /\ sret'.pc \in DOMAIN insn
                 /\ sret'.new_pc = Some(insn[sret'.pc])
       /\ (sret'.op = "single_step_complete" /\ sret'.ok)
              => sret'.new_pc = Some(ORIGINAL_PC[sret'.cpu] + 4)]_vars

\* C38: with programs running on several CPUs, the value a program reads
\* through the pointer its map-lookup helper returned is the value that was
\* stored under the key it looked up, not one that the lookup of another CPU
\* wrote into the shared buffer in between.
C38_ReadOwnLookup ==
    [][\A c \in CPUs :
           (thr[c].pc = "read" /\ thr'[c].pc = "idle")
               => loadret'.value = Unwrap(thr[c].loc)[3]]_vars

\* C35: no interleaving deadlocks on the spin mutexes: there is no set of
\* CPUs each of which spins on a mutex held by a CPU of the set, and in
\* particular no CPU spins on a mutex it holds itself.
C35_NoDeadlock ==
    ~\E S \in SUBSET CPUs \ {{}} : \A c \in S : WaitsFor(c) \in S
====
